---- MODULE Spec2Model ----
(***************************************************************************)
(* Agent routing, spec analysis and the Task model of multiagent_devops.   *)
(*                                                                         *)
(* Texts are TLA+ strings; every match is computed character by character  *)
(* (substring containment, lower-casing, whitespace splitting), as the     *)
(* Python code computes it.  Scores are the code's floats; all weights are *)
(* whole numbers, so they are kept as integers.                            *)
(***************************************************************************)
EXTENDS Integers, Sequences, FiniteSets, TLC

(***************************************************************************)
(* Bounds of the explored inputs.                                          *)
(***************************************************************************)
MaxTasks == 2
MaxRepeat == 10
MaxLoad == 3
MaxCapacity == 2
MaxWords == 2
MaxThreads == 2
MaxComponents == 6
MaxAgents == 2
MaxLogs == 6

(***************************************************************************)
(* Python str operations.                                                  *)
(***************************************************************************)
UpperChars == "ABCDEFGHIJKLMNOPQRSTUVWXYZ"
LowerChars == "abcdefghijklmnopqrstuvwxyz"

CharAt(s, i) == SubSeq(s, i, i)

\* s[i - 1 : j] for 1 <= i and j <= len(s)
Slice(s, i, j) == IF j < i THEN "" ELSE SubSeq(s, i, j)

\* text.startswith(s, i - 1)
StartsAt(s, text, i) ==
    i >= 1 /\ i + Len(s) - 1 <= Len(text) /\ Slice(text, i, i + Len(s) - 1) = s

\* kw in text
Contains(kw, text) == \E i \in 1..(Len(text) - Len(kw) + 1) : StartsAt(kw, text, i)

CharsOf(s) == {CharAt(s, i) : i \in 1..Len(s)}

UpperSet == CharsOf(UpperChars)

\* the lower-case letter of each upper-case letter
LowerOf == [c \in UpperSet |->
              CharAt(LowerChars, CHOOSE i \in 1..26 : CharAt(UpperChars, i) = c)]


\* s.lower(): the text up to the first upper-case letter is kept, that letter
\* is replaced, and the rest is lowered in the same way
RECURSIVE Lower(_)
Lower(s) ==
    LET uppers == {i \in 1..Len(s) : CharAt(s, i) \in UpperSet}
    IN  IF uppers = {} THEN s
        ELSE LET first == CHOOSE i \in uppers : \A k \in uppers : i <= k
             IN  Slice(s, 1, first - 1) \o LowerOf[CharAt(s, first)]
                 \o Lower(Slice(s, first + 1, Len(s)))

Whitespace == {" ", "\t", "\n", "\r", "\f"}

IsSpace(c) == c \in Whitespace

\* the end (exclusive) of the longest run from i of characters that are in
\* chars (member) or are not in chars (~member)
RunEnd(text, i, chars, member) ==
    CHOOSE j \in i..(Len(text) + 1) :
        /\ j <= Len(text) => (CharAt(text, j) \in chars) # member
        /\ \A p \in i..(j - 1) : (CharAt(text, p) \in chars) = member

\* s.split(): the maximal runs of non-whitespace characters, in order
RECURSIVE SplitFrom(_, _)
SplitFrom(s, i) ==
    LET start == RunEnd(s, i, Whitespace, TRUE)
        end == RunEnd(s, start, Whitespace, FALSE)
    IN  IF start > Len(s) THEN <<>>
        ELSE <<Slice(s, start, end - 1)>> \o SplitFrom(s, end)

Split(s) == SplitFrom(s, 1)

\* any(kw in text for kw in kws)
AnyIn(kws, text) == \E i \in 1..Len(kws) : Contains(kws[i], text)

\* Every substring of a text.  The router tests many keywords against one
\* task description, so it holds the description as this set: "kw in
\* task_desc" is then membership.
Substrings(text) ==
    {""} \cup UNION {{SubSeq(text, i, j) : j \in i..Len(text)} : i \in 1..Len(text)}

\* any(kw in task_desc for kw in kws)
AnyOf(kws, task_desc) == \E i \in 1..Len(kws) : kws[i] \in task_desc

\* sum(1 for kw in kws if kw in task_desc)
CountOf(kws, task_desc) == Cardinality({i \in 1..Len(kws) : kws[i] \in task_desc})

\* content.split('\n')
RECURSIVE SplitLinesFrom(_, _)
SplitLinesFrom(content, i) ==
    LET end == RunEnd(content, i, {"\n"}, FALSE)
    IN  IF end > Len(content) THEN <<Slice(content, i, Len(content))>>
        ELSE <<Slice(content, i, end - 1)>> \o SplitLinesFrom(content, end + 1)

SplitLines(content) == SplitLinesFrom(content, 1)

\* s.strip()
Strip(s) ==
    LET inside == {p \in 1..Len(s) : ~IsSpace(CharAt(s, p))}
    IN  IF inside = {} THEN ""
        ELSE Slice(s, CHOOSE p \in inside : \A q \in inside : p <= q,
                      CHOOSE p \in inside : \A q \in inside : p >= q)

StartsWith(s, prefix) == StartsAt(prefix, s, 1)

\* ' '.join(strings)
RECURSIVE JoinSpace(_)
JoinSpace(strings) ==
    IF strings = <<>> THEN ""
    ELSE IF Len(strings) = 1 THEN Head(strings)
    ELSE Head(strings) \o " " \o JoinSpace(Tail(strings))

InList(x, list) == \E i \in 1..Len(list) : list[i] = x

\* a dict with no key
EmptyDict == [k \in {} |-> ""]

\* d.get(k), None being falsy
GetFlag(d, k) == k \in DOMAIN d /\ d[k]

(***************************************************************************)
(* Regular expressions of spec_analyzer.py.  A pattern is the sequence of  *)
(* atoms between its two \b anchors; re.search asks only whether some      *)
(* match exists, so a pattern matches when some start and some choice of   *)
(* alternatives fit.  The text classes are ASCII: \v and the Unicode       *)
(* spaces and letters cannot be written in a string here.                  *)
(***************************************************************************)
DigitChars == "0123456789"

DigitSet == CharsOf(DigitChars)

IsDigit(c) == c \in DigitSet

\* \w
WordSet == CharsOf(LowerChars) \cup UpperSet \cup DigitSet \cup {"_"}

IsWordChar(c) == c \in WordSet

IsWordAt(text, p) == p >= 1 /\ p <= Len(text) /\ IsWordChar(CharAt(text, p))

\* \b between the characters p - 1 and p
Boundary(text, p) == IsWordAt(text, p - 1) # IsWordAt(text, p)

Lit(s) == [kind |-> "alts", alts |-> <<s>>]
Alt(strings) == [kind |-> "alts", alts |-> strings]
Opt(strings) == [kind |-> "alts", alts |-> <<"">> \o strings]
\* \s+
Spaces == [kind |-> "spaces", alts |-> <<>>]
\* [\s-]?
OptSpaceOrDash == [kind |-> "alts", alts |-> <<"", " ", "\t", "\n", "\r", "\f", "-">>]
\* (?<!s)
NotAfter(s) == [kind |-> "notafter", alts |-> <<s>>]

\* the positions right after a match of one atom that starts at i
AtomEnds(atom, text, i) ==
    IF atom.kind = "alts"
    THEN {i + Len(atom.alts[k]) : k \in {n \in 1..Len(atom.alts) : StartsAt(atom.alts[n], text, i)}}
    ELSE IF atom.kind = "spaces"
    THEN {j \in (i + 1)..(Len(text) + 1) : \A p \in i..(j - 1) : IsSpace(CharAt(text, p))}
    ELSE IF \E k \in 1..Len(atom.alts) : StartsAt(atom.alts[k], text, i - Len(atom.alts[k]))
         THEN {}
         ELSE {i}

RECURSIVE MatchEnds(_, _, _)
MatchEnds(atoms, text, i) ==
    IF atoms = <<>> THEN {i}
    ELSE UNION {MatchEnds(Tail(atoms), text, j) : j \in AtomEnds(Head(atoms), text, i)}

\* the positions of text where \b holds
Boundaries(text) == {p \in 1..(Len(text) + 1) : Boundary(text, p)}

\* re.search(r"\b...\b", text), given bounds = Boundaries(text)
Search(atoms, text, bounds) ==
    \E i \in bounds : \E e \in MatchEnds(atoms, text, i) : e \in bounds

AnyPattern(patterns, text, bounds) ==
    \E k \in 1..Len(patterns) : Search(patterns[k], text, bounds)

(***************************************************************************)
(* The capability registry, in declaration (dict iteration) order.         *)
(***************************************************************************)
AgentOrder == <<"@copilot", "@claude", "@codex", "@qwen", "@gemini">>

Handles == {AgentOrder[i] : i \in 1..Len(AgentOrder)}

AGENT_CAPABILITIES == [agent \in Handles |->
    IF agent = "@copilot" THEN
      [ name |-> "GitHub Copilot",
        languages |-> <<"python", "javascript", "typescript", "java", "c#", "go", "ruby">>,
        frameworks |-> <<"fastapi", "django", "flask", "express", "react", "vue", "spring">>,
        tasks |-> <<"backend", "api", "crud", "database", "implementation", "boilerplate">>,
        complexity |-> "all",
        speed |-> "fastest",
        cost |-> "free",
        parallel_capacity |-> 2,
        strengths |-> <<"Fast bulk code generation", "Pattern recognition and replication", "Boilerplate code creation", "CRUD operations", "API endpoint implementation">>,
        weaknesses |-> <<"Complex architecture decisions", "Security considerations", "Performance optimization">>,
        best_for |-> <<"Rapid prototyping", "Backend API development", "Database operations", "Standard implementations">> ]
    ELSE IF agent = "@claude" THEN
      [ name |-> "Claude (Anthropic)",
        languages |-> <<"python", "javascript", "typescript", "go", "rust", "c++", "java">>,
        frameworks |-> <<"all">>,
        tasks |-> <<"architecture", "security", "integration", "review", "complex", "design">>,
        complexity |-> "high",
        speed |-> "medium",
        cost |-> "medium",
        parallel_capacity |-> 1,
        strengths |-> <<"Complex architectural decisions", "Security analysis and implementation", "Code review and quality assurance", "System design and integration", "Strategic technical decisions">>,
        weaknesses |-> <<"Slower for bulk code generation", "Higher cost for simple tasks">>,
        best_for |-> <<"Architecture design", "Security reviews", "Complex problem solving", "Integration challenges", "Code quality reviews">> ]
    ELSE IF agent = "@codex" THEN
      [ name |-> "OpenAI Codex",
        languages |-> <<"javascript", "typescript", "html", "css", "python">>,
        frameworks |-> <<"react", "vue", "angular", "nextjs", "svelte", "tailwind">>,
        tasks |-> <<"frontend", "ui", "components", "interactive", "styling", "e2e-testing">>,
        complexity |-> "medium",
        speed |-> "fast",
        cost |-> "free",
        parallel_capacity |-> 2,
        strengths |-> <<"Frontend component development", "Interactive UI creation", "CSS and styling", "Browser-based testing", "Responsive design">>,
        weaknesses |-> <<"Backend architecture", "Database design", "System-level programming">>,
        best_for |-> <<"React/Vue/Angular components", "UI/UX implementation", "Frontend testing", "Interactive features", "Design system implementation">> ]
    ELSE IF agent = "@qwen" THEN
      [ name |-> "Qwen (Alibaba)",
        languages |-> <<"python", "javascript", "c++", "rust", "go">>,
        frameworks |-> <<"numpy", "pandas", "tensorflow", "pytorch", "scikit-learn">>,
        tasks |-> <<"optimization", "performance", "algorithms", "testing", "analysis">>,
        complexity |-> "high",
        speed |-> "medium",
        cost |-> "low",
        parallel_capacity |-> 1,
        strengths |-> <<"Performance optimization", "Algorithm implementation", "Data structure optimization", "Test generation and coverage", "Benchmark creation">>,
        weaknesses |-> <<"UI/UX development", "Creative design tasks">>,
        best_for |-> <<"Code optimization", "Algorithm improvements", "Performance tuning", "Test suite creation", "Data processing pipelines">> ]
    ELSE
      [ name |-> "Google Gemini",
        languages |-> <<"markdown", "yaml", "json", "python", "javascript">>,
        frameworks |-> <<"documentation", "sphinx", "mkdocs", "docusaurus">>,
        tasks |-> <<"documentation", "research", "analysis", "specs", "planning">>,
        complexity |-> "medium",
        speed |-> "fast",
        cost |-> "low",
        parallel_capacity |-> 1,
        strengths |-> <<"Documentation generation", "Research and analysis", "Spec writing", "API documentation", "Code explanation">>,
        weaknesses |-> <<"Complex implementation", "Performance optimization">>,
        best_for |-> <<"README creation", "API documentation", "Research tasks", "Spec refinement", "Documentation updates">> ]
]

(***************************************************************************)
(* AgentRouter._calculate_match_score                                      *)
(***************************************************************************)
\* the matches of the strengths from the i-th on
RECURSIVE StrengthMatches(_, _, _)
StrengthMatches(strengths, i, task_desc) ==
    IF i > Len(strengths) THEN 0
    ELSE LET strength_keywords == Split(Lower(strengths[i]))
             matches == CountOf(strength_keywords, task_desc)
         IN  matches * 2 + StrengthMatches(strengths, i + 1, task_desc)

FrameworkMatches(frameworks, task_desc) ==
    5 * Cardinality({i \in 1..Len(frameworks) :
                        frameworks[i] # "all" /\ frameworks[i] \in task_desc})

SpeedBonus(task_desc, capability) ==
    IF AnyOf(<<"simple", "quick", "basic", "standard">>, task_desc)
    THEN (IF capability.speed = "fastest" THEN 3
          ELSE IF capability.speed = "fast" THEN 2 ELSE 0)
    ELSE 0

ComplexityBonus(task_desc, capability) ==
    IF AnyOf(<<"complex", "advanced", "sophisticated">>, task_desc)
    THEN (IF capability.complexity = "high" THEN 3 ELSE 0)
    ELSE 0

CostBonus(task_desc, capability) ==
    IF AnyOf(<<"prototype", "demo", "test">>, task_desc)
    THEN (IF capability.cost = "free" THEN 2
          ELSE IF capability.cost = "low" THEN 1 ELSE 0)
    ELSE 0

\* a scorer that also takes 2 off for every weakness word in the description
WeaknessPenalisingScore(task_desc, capability) ==
    CountOf(capability.tasks, task_desc) * 10
    + CountOf(capability.languages, task_desc) * 5
    + FrameworkMatches(capability.frameworks, task_desc)
    + StrengthMatches(capability.strengths, 1, task_desc)
    - StrengthMatches(capability.weaknesses, 1, task_desc)
    + SpeedBonus(task_desc, capability)
    + ComplexityBonus(task_desc, capability)
    + CostBonus(task_desc, capability)

calculate_match_score(task_desc, capability) ==
    CountOf(capability.tasks, task_desc) * 10
    + CountOf(capability.languages, task_desc) * 5
    + FrameworkMatches(capability.frameworks, task_desc)
    + StrengthMatches(capability.strengths, 1, task_desc)
    + SpeedBonus(task_desc, capability)
    + ComplexityBonus(task_desc, capability)
    + CostBonus(task_desc, capability)

(***************************************************************************)
(* Task descriptions handed to the router.                                 *)
(***************************************************************************)
TaskDescriptions ==
    { "",
      "Optimize database queries and improve algorithm efficiency",
      "Build React components with interactive animations",
      "Design system architecture",
      "Write documentation",
      "Port parser to Rust",
      "Security review of login",
      "Write unit tests" }

(***************************************************************************)
(* Spec directories handed to the analyzer.                                *)
(***************************************************************************)
File(text) == [exists |-> TRUE, text |-> text]
Missing == [exists |-> FALSE, text |-> ""]

\* spec.md documents
SpecDocuments ==
    { "",
      "# Shop\n\nUsers can login with email and password, OAuth with Google.\nPayments via Stripe.\n\n## Requirements\n- Security: encrypt data\n- Deploy with Docker on Kubernetes\n",
      "# Data API\n\nPython FastAPI service that must scale.\n",
      "Draft\n# Notes\nA plain page.\n## Scope\nStill the first paragraph.\n\nSecond paragraph.\n",
      "# Store\n\nMongoDB store used by Go workers, real-time search.\n",
      "# Site\n\nReact frontend on Vercel, simple.\n",
      "# Port\n\nStripe payments first, then login. Rails app moving to Django.\n" }

\* spec.md texts that put up to MaxWords of these words after a title
TargetWords ==
    << "docker", "container", "scale", "kubernetes", "k8s", "cluster",
       "lambda", "vercel", "netlify", "serverless",
       "vps", "digitalocean", "linode", "simple",
       "django", "rails", "page" >>

RECURSIVE WordsText(_, _)
WordsText(picked, i) ==
    IF i > Len(TargetWords) THEN ""
    ELSE (IF i \in picked THEN " " \o TargetWords[i] ELSE "") \o WordsText(picked, i + 1)

KeywordSpecs ==
    {"# Spec\n\nUse" \o WordsText(picked, 1) \o ".\n" :
        picked \in {s \in SUBSET (1..Len(TargetWords)) : Cardinality(s) <= MaxWords}}

\* tasks.md documents
TasksDocuments ==
    { "## Tasks\n",
      "# Tasks\n\n- [ ] T001 @copilot Create test setup\n- [ ] T002 @claude Review test setup in tests/setup.py\n",
      "- [ ] T001 Create REST API endpoints\n- [x] T002 Write documentation\nnot a task\n- [ ] TODO later\n",
      "- [ ] T001 @codex Build frontend shell\n- [ ] T002 Design system architecture\n- [x] T003 @copilot Implement backend service\n- [ ] T004 Write unit tests\n",
      "Owner: @alice\n- [ ] T1 Security review of login\n- [] T2 broken\n",
      "- [ ] T001 @copilot Pair with @claude on setup\n- [x] T002 Write docs\n" }

\* plan.md documents
PlanDocuments ==
    { "",
      "Ship it.\n",
      "Focus on speed.\n",
      "Encrypt everything.\n",
      "Build the dashboard.\n",
      "Optimize the React frontend with secure auth.\n" }

\* spec.md with every plan.md when tasks.md is missing, and every tasks.md
\* with every plan.md beside one spec.md or none
SpecDirs ==
    [ spec_md : {Missing} \cup {File(t) : t \in SpecDocuments},
      tasks_md : {Missing},
      plan_md : {Missing} \cup {File(t) : t \in PlanDocuments} ]
    \cup [ spec_md : {Missing, File("# Site\n\nReact frontend on Vercel, simple.\n")},
           tasks_md : {File(t) : t \in TasksDocuments},
           plan_md : {Missing} \cup {File(t) : t \in PlanDocuments} ]
    \cup [ spec_md : {File(t) : t \in KeywordSpecs}, tasks_md : {Missing}, plan_md : {Missing} ]
\* n copies of the description d
Repeat(d, n) == [i \in 1..n |-> d]

TaskLists ==
    UNION {[1..n -> TaskDescriptions] : n \in 0..MaxTasks}
    \cup {Repeat(d, MaxRepeat) : d \in TaskDescriptions}

\* Registries that differ from the shipped one in one parallel_capacity
Registries ==
    {AGENT_CAPABILITIES}
    \cup {[AGENT_CAPABILITIES EXCEPT ![a].parallel_capacity = c] :
            a \in Handles, c \in 0..MaxCapacity}

(***************************************************************************)
(* AgentRouter.recommend_agent.  max(scores.keys(), key=...) takes the key *)
(* of each handle once, in dict order, and keeps the first handle whose    *)
(* score no later handle exceeds.                                          *)
(***************************************************************************)
\* the scores dict
RECURSIVE ScoresFrom(_, _, _)
ScoresFrom(task_desc, caps, i) ==
    IF i > Len(AgentOrder) THEN EmptyDict
    ELSE LET agent_name == AgentOrder[i]
             score == calculate_match_score(task_desc, caps[agent_name])
         IN  (agent_name :> score) @@ ScoresFrom(task_desc, caps, i + 1)

Scores(task_description, caps) ==
    LET task_lower == Lower(task_description)
        task_desc == Substrings(task_lower)
    IN  ScoresFrom(task_desc, caps, 1)

\* a scan that lets a later handle of equal score replace the best so far
RECURSIVE LastMaxScan(_, _, _, _)
LastMaxScan(keys, i, best, key) ==
    IF i > Len(keys) THEN best
    ELSE LastMaxScan(keys, i + 1, IF key[keys[i]] >= key[best] THEN keys[i] ELSE best, key)

RECURSIVE MaxScan(_, _, _, _)
MaxScan(keys, i, best, key) ==
    IF i > Len(keys) THEN best
    ELSE MaxScan(keys, i + 1, IF key[keys[i]] > key[best] THEN keys[i] ELSE best, key)

\* the handle returned for a scores dict
Recommended(scores) ==
    IF Len(AgentOrder) > 0
    THEN MaxScan(AgentOrder, 2, AgentOrder[1], scores)
    ELSE "@copilot"

recommend_agent(task_description, caps) == Recommended(Scores(task_description, caps))

(***************************************************************************)
(* AgentRouter.recommend_agents_for_tasks                                  *)
(***************************************************************************)
RECURSIVE AssignEach(_, _, _, _)
AssignEach(task_list, i, asg, caps) ==
    IF i > Len(task_list) THEN asg
    ELSE LET best_agent == recommend_agent(task_list[i], caps)
         IN  AssignEach(task_list, i + 1,
                        [asg EXCEPT ![best_agent] = Append(@, task_list[i])], caps)

\* a batch assignment that keeps the handles with no task
UnfilteredAssignments(task_list, caps) ==
    AssignEach(task_list, 1, [agent \in Handles |-> <<>>], caps)

recommend_agents_for_tasks(task_list, caps) ==
    LET filled == AssignEach(task_list, 1, [agent \in Handles |-> <<>>], caps)
    IN  [k \in {a \in Handles : filled[a] # <<>>} |-> filled[k]]

(***************************************************************************)
(* Workload values are Python floats; they are kept exact as fractions in  *)
(* lowest terms, float('inf') being 1/0.                                   *)
(***************************************************************************)
RECURSIVE GCD(_, _)
GCD(a, b) == IF b = 0 THEN a ELSE GCD(b, a % b)

Rat(n, d) == LET g == GCD(n, d) IN
    IF g = 0 THEN [num |-> 0, den |-> 1] ELSE [num |-> n \div g, den |-> d \div g]

Inf == Rat(1, 0)
Hundred == Rat(100, 1)

RatGT(a, b) == a.num * b.den > b.num * a.den
RatTimes(a, k) == Rat(a.num * k, a.den)

\* max(a, b) in the place of min(a, b)
PyMax(a, b) == IF RatGT(b, a) THEN b ELSE a

\* min(a, b) of Python: b only when b < a
PyMin(a, b) == IF RatGT(a, b) THEN b ELSE a

(***************************************************************************)
(* AgentRouter.get_agent_workload                                          *)
(***************************************************************************)
\* the percentages without the clamp at 100
UnclampedWorkload(asg, caps) ==
    [agent \in DOMAIN asg |->
        LET capacity == caps[agent].parallel_capacity
            workload == IF capacity > 0 THEN Rat(Len(asg[agent]), capacity) ELSE Inf
        IN  RatTimes(workload, 100)]

get_agent_workload(asg, caps) ==
    [agent \in DOMAIN asg |->
        LET capacity == caps[agent].parallel_capacity
            workload == IF capacity > 0 THEN Rat(Len(asg[agent]), capacity) ELSE Inf
        IN  PyMin(RatTimes(workload, 100), Hundred)]

(***************************************************************************)
(* AgentRouter.balance_workload.  A return value is the assignments with   *)
(* the exception raised on the way, if any.                                *)
(***************************************************************************)
max_iterations == 5

Returned(asg) == [assignments |-> asg, raised |-> "none"]
Raised(asg, exc) == [assignments |-> asg, raised |-> exc]

\* keys of a dict over registered handles, in iteration order
RECURSIVE KeysFrom(_, _)
KeysFrom(keyset, i) ==
    IF i > Len(AgentOrder) THEN <<>>
    ELSE (IF AgentOrder[i] \in keyset THEN <<AgentOrder[i]>> ELSE <<>>)
         \o KeysFrom(keyset, i + 1)

Keys(d) == KeysFrom(DOMAIN d, 1)

\* assignments.get(alt_agent, [])
GetOrEmpty(asg, alt_agent) == IF alt_agent \in DOMAIN asg THEN asg[alt_agent] ELSE <<>>

\* the inner "for alt_agent in self.capabilities.keys()" of one task: the
\* index of the first other agent below its capacity, 0 when there is none
RECURSIVE FirstWithCapacity(_, _, _, _)
FirstWithCapacity(asg, agent, caps, i) ==
    IF i > Len(AgentOrder) THEN 0
    ELSE IF AgentOrder[i] # agent
            /\ Len(GetOrEmpty(asg, AgentOrder[i])) < caps[AgentOrder[i]].parallel_capacity
         THEN i
         ELSE FirstWithCapacity(asg, agent, caps, i + 1)

\* "for task in tasks_to_reassign"
RECURSIVE Reassign(_, _, _, _)
Reassign(asg, agent, tasks_to_reassign, caps) ==
    IF tasks_to_reassign = <<>> THEN Returned(asg)
    ELSE LET i == FirstWithCapacity(asg, agent, caps, 1)
         IN  IF i = 0 THEN Reassign(asg, agent, Tail(tasks_to_reassign), caps)
             ELSE IF AgentOrder[i] \notin DOMAIN asg THEN Raised(asg, "KeyError")
             ELSE Reassign([asg EXCEPT ![AgentOrder[i]] = Append(@, Head(tasks_to_reassign))],
                           agent, Tail(tasks_to_reassign), caps)

\* "for agent in overloaded"
RECURSIVE ForOverloaded(_, _, _)
ForOverloaded(asg, overloaded, caps) ==
    IF overloaded = <<>> THEN Returned(asg)
    ELSE LET agent == Head(overloaded)
             capacity == caps[agent].parallel_capacity
             tasks_to_reassign == SubSeq(asg[agent], capacity + 1, Len(asg[agent]))
             kept == [asg EXCEPT ![agent] = SubSeq(@, 1, capacity)]
             r == Reassign(kept, agent, tasks_to_reassign, caps)
         IN  IF r.raised # "none" THEN r
             ELSE ForOverloaded(r.assignments, Tail(overloaded), caps)

RECURSIVE WhileOverloaded(_, _, _, _)
WhileOverloaded(asg, loads, iteration, caps) ==
    IF (\E agent \in DOMAIN loads : RatGT(loads[agent], Hundred))
       /\ iteration < max_iterations
    THEN LET overloaded == SelectSeq(Keys(loads), LAMBDA agent : RatGT(loads[agent], Hundred))
             r == ForOverloaded(asg, overloaded, caps)
         IN  IF r.raised # "none" THEN r
             ELSE WhileOverloaded(r.assignments, get_agent_workload(r.assignments, caps),
                                  iteration + 1, caps)
    ELSE Returned(asg)

\* balance_workload entering its loop on percentages that are not clamped
BalanceUnclamped(task_list, caps) ==
    LET initial == recommend_agents_for_tasks(task_list, caps)
    IN  WhileOverloaded(initial, UnclampedWorkload(initial, caps), 0, caps)

balance_workload(task_list, caps) ==
    LET initial == recommend_agents_for_tasks(task_list, caps)
    IN  WhileOverloaded(initial, get_agent_workload(initial, caps), 0, caps)

ComponentOrder ==
    <<"multiagent-auth",
      "multiagent-payments",
      "multiagent-testing",
      "multiagent-websockets",
      "multiagent-database",
      "multiagent-cache",
      "multiagent-email",
      "multiagent-storage",
      "multiagent-analytics",
      "multiagent-search">>

COMPONENT_PATTERNS == [component \in {ComponentOrder[i] : i \in 1..Len(ComponentOrder)} |->
    IF component = "multiagent-auth" THEN
      <<<<Lit("auth"), Alt(<<"entication", "orization">>)>>,
        <<Lit("login")>>,
        <<Lit("password")>>,
        <<Lit("oauth")>>,
        <<Lit("jwt")>>,
        <<Lit("session")>>,
        <<Lit("user"), Spaces, Lit("management")>>,
        <<Lit("access"), Spaces, Lit("control")>>>>
    ELSE IF component = "multiagent-payments" THEN
      <<<<Lit("payment")>>,
        <<Lit("stripe")>>,
        <<Lit("paypal")>>,
        <<Lit("subscription")>>,
        <<Lit("billing")>>,
        <<Lit("invoice")>>,
        <<Lit("refund")>>,
        <<Lit("transaction")>>>>
    ELSE IF component = "multiagent-testing" THEN
      <<<<Lit("test"), Opt(<<"ing">>)>>,
        <<Lit("qa")>>,
        <<Lit("quality"), Spaces, Lit("assurance")>>,
        <<Lit("coverage")>>,
        <<Lit("e2e")>>,
        <<Lit("integration"), Spaces, Lit("test")>>>>
    ELSE IF component = "multiagent-websockets" THEN
      <<<<Lit("real"), OptSpaceOrDash, Lit("time")>>,
        <<Lit("websocket")>>,
        <<Lit("live"), Spaces, Lit("update")>>,
        <<Lit("streaming")>>,
        <<Lit("chat")>>,
        <<Lit("notification")>>>>
    ELSE IF component = "multiagent-database" THEN
      <<<<Lit("database")>>,
        <<Lit("postgres"), Opt(<<"ql">>)>>,
        <<Lit("mysql")>>,
        <<Lit("mongod"), Opt(<<"b">>)>>,
        <<Lit("schema")>>,
        <<Lit("migration")>>>>
    ELSE IF component = "multiagent-cache" THEN
      <<<<Lit("cach"), Alt(<<"e", "ing">>)>>,
        <<Lit("redis")>>,
        <<Lit("memcache"), Opt(<<"d">>)>>,
        <<Lit("cdn")>>,
        <<Lit("performance")>>>>
    ELSE IF component = "multiagent-email" THEN
      <<<<Lit("email")>>,
        <<Lit("smtp")>>,
        <<Lit("sendgrid")>>,
        <<Lit("mailgun")>>,
        <<Lit("newsletter")>>,
        <<Lit("notification")>>>>
    ELSE IF component = "multiagent-storage" THEN
      <<<<Lit("file"), Spaces, Lit("upload")>>,
        <<Lit("s3")>>,
        <<Lit("blob"), Spaces, Lit("storage")>>,
        <<Lit("image"), Spaces, Lit("upload")>>,
        <<Lit("media")>>>>
    ELSE IF component = "multiagent-analytics" THEN
      <<<<Lit("analytics")>>,
        <<Lit("metrics")>>,
        <<Lit("tracking")>>,
        <<Lit("dashboard")>>,
        <<Lit("reporting")>>,
        <<Lit("visualization")>>>>
    ELSE  \* multiagent-search
      <<<<Lit("search")>>,
        <<Lit("elasticsearch")>>,
        <<Lit("solr")>>,
        <<Lit("index"), Opt(<<"ing">>)>>,
        <<Lit("full"), OptSpaceOrDash, Lit("text")>>>>]

CategoryOrder == <<"backend", "frontend", "database", "deployment">>

\* per category, the technologies in declaration order with their patterns
STACK_PATTERNS == [category \in {CategoryOrder[i] : i \in 1..Len(CategoryOrder)} |->
    IF category = "backend" THEN
      <<[tech |-> "python", patterns |-> <<<<Lit("python")>>, <<Lit("django")>>, <<Lit("fastapi")>>, <<Lit("flask")>>>>],
        [tech |-> "javascript", patterns |-> <<<<Lit("node"), Opt(<<"js", ".js">>)>>, <<Lit("express")>>, <<Lit("nest"), Opt(<<".">>), Lit("js")>>>>],
        [tech |-> "java", patterns |-> <<<<Lit("java")>>, <<Lit("spring")>>, <<Lit("springboot")>>>>],
        [tech |-> "go", patterns |-> <<<<Lit("golang")>>, <<NotAfter("mon"), Lit("go")>>, <<Lit("gin")>>>>],
        [tech |-> "ruby", patterns |-> <<<<Lit("ruby")>>, <<Lit("rails")>>>>]>>
    ELSE IF category = "frontend" THEN
      <<[tech |-> "react", patterns |-> <<<<Lit("react")>>, <<Lit("next"), Opt(<<".">>), Lit("js")>>>>],
        [tech |-> "vue", patterns |-> <<<<Lit("vue"), Opt(<<"js", ".js">>)>>, <<Lit("nuxt")>>>>],
        [tech |-> "angular", patterns |-> <<<<Lit("angular")>>>>],
        [tech |-> "svelte", patterns |-> <<<<Lit("svelte")>>, <<Lit("sveltekit")>>>>]>>
    ELSE IF category = "database" THEN
      <<[tech |-> "postgresql", patterns |-> <<<<Lit("postgres"), Opt(<<"ql">>)>>>>],
        [tech |-> "mysql", patterns |-> <<<<Lit("mysql")>>, <<Lit("mariadb")>>>>],
        [tech |-> "mongodb", patterns |-> <<<<Lit("mongod"), Opt(<<"b">>)>>>>],
        [tech |-> "redis", patterns |-> <<<<Lit("redis")>>>>],
        [tech |-> "sqlite", patterns |-> <<<<Lit("sqlite")>>>>]>>
    ELSE  \* deployment
      <<[tech |-> "docker", patterns |-> <<<<Lit("docker")>>, <<Lit("container")>>>>],
        [tech |-> "kubernetes", patterns |-> <<<<Lit("kubernetes")>>, <<Lit("k8s")>>>>],
        [tech |-> "serverless", patterns |-> <<<<Lit("serverless")>>, <<Lit("lambda")>>, <<Lit("vercel")>>>>],
        [tech |-> "vps", patterns |-> <<<<Lit("vps")>>, <<Lit("digitalocean")>>, <<Lit("linode")>>>>]>>]

(***************************************************************************)
(* SpecAnalysis(spec_path=spec_path, title="", description="")             *)
(***************************************************************************)
SpecAnalysis(title, description) ==
    [ title |-> title,
      description |-> description,
      components_needed |-> <<>>,
      stack_detected |-> EmptyDict,
      agents_recommended |-> <<>>,
      deployment_targets |-> <<>>,
      requirements |-> EmptyDict,
      tasks_count |-> 0,
      complexity |-> "medium",
      estimated_effort |-> "1-2 weeks" ]

(***************************************************************************)
(* SpecAnalyzer._determine_deployment_targets                              *)
(***************************************************************************)
\* target inference that does not know netlify
TargetsWithoutNetlify(content, stack) ==
    LET docker == IF Contains("docker", content) \/ Contains("container", content)
                  THEN <<"docker">>
                  ELSE IF "backend" \in DOMAIN stack /\ stack["backend"] # ""
                       THEN <<"docker">> ELSE <<>>
        kubernetes == IF AnyIn(<<"scale", "kubernetes", "k8s", "cluster">>, content)
                      THEN <<"kubernetes">> ELSE <<>>
        serverless == IF AnyIn(<<"lambda", "vercel", "serverless">>, content)
                      THEN <<"serverless">> ELSE <<>>
        vps == IF AnyIn(<<"vps", "digitalocean", "linode", "simple">>, content)
               THEN <<"vps">> ELSE <<>>
        targets == docker \o kubernetes \o serverless \o vps
    IN  IF targets = <<>> THEN <<"docker">> ELSE targets

determine_deployment_targets(content, stack) ==
    LET docker == IF Contains("docker", content) \/ Contains("container", content)
                  THEN <<"docker">>
                  ELSE IF "backend" \in DOMAIN stack /\ stack["backend"] # ""
                       THEN <<"docker">> ELSE <<>>
        kubernetes == IF AnyIn(<<"scale", "kubernetes", "k8s", "cluster">>, content)
                      THEN <<"kubernetes">> ELSE <<>>
        serverless == IF AnyIn(<<"lambda", "vercel", "netlify", "serverless">>, content)
                      THEN <<"serverless">> ELSE <<>>
        vps == IF AnyIn(<<"vps", "digitalocean", "linode", "simple">>, content)
               THEN <<"vps">> ELSE <<>>
        targets == docker \o kubernetes \o serverless \o vps
    IN  IF targets = <<>> THEN <<"docker">> ELSE targets

(***************************************************************************)
(* SpecAnalyzer._extract_requirements                                      *)
(***************************************************************************)
RECURSIVE RequirementLines(_, _, _, _, _)
RequirementLines(lines, i, in_requirements, current_type, found) ==
    IF i > Len(lines) THEN found
    ELSE LET line == lines[i] IN
         IF Contains("requirement", Lower(line))
         THEN RequirementLines(lines, i + 1, TRUE, current_type, found)
         ELSE IF in_requirements /\ StartsWith(line, "-")
         THEN LET req_text == Strip(Slice(line, 2, Len(line))) IN
              IF Contains("functional", Lower(line))
              THEN RequirementLines(lines, i + 1, in_requirements, "functional", found)
              ELSE IF Contains("non-functional", Lower(line))
              THEN RequirementLines(lines, i + 1, in_requirements, "non_functional", found)
              ELSE RequirementLines(lines, i + 1, in_requirements, current_type,
                                    [found EXCEPT ![current_type] = Append(@, req_text)])
         ELSE RequirementLines(lines, i + 1, in_requirements, current_type, found)

extract_requirements(content) ==
    LET found == RequirementLines(SplitLines(content), 1, FALSE, "functional",
                                  [functional |-> <<>>, non_functional |-> <<>>])
        content_lower == Lower(content)
    IN  [ functional |-> found.functional,
          non_functional |-> found.non_functional,
          security |-> AnyIn(<<"security", "auth", "encrypt">>, content_lower),
          performance |-> AnyIn(<<"performance", "fast", "optimiz">>, content_lower),
          accessibility |-> AnyIn(<<"accessibility", "a11y", "wcag">>, content_lower),
          i18n |-> AnyIn(<<"i18n", "international", "localization">>, content_lower) ]

(***************************************************************************)
(* SpecAnalyzer._analyze_content                                           *)
(***************************************************************************)
\* the title loop: the first line that starts with "# "
RECURSIVE FindTitle(_, _, _)
FindTitle(lines, i, title) ==
    IF i > Len(lines) THEN title
    ELSE IF StartsWith(lines[i], "# ") THEN Strip(Slice(lines[i], 3, Len(lines[i])))
    ELSE FindTitle(lines, i + 1, title)

\* the description loop over lines[1:]
RECURSIVE DescriptionLines(_, _, _)
DescriptionLines(lines, i, in_paragraph) ==
    IF i > Len(lines) THEN <<>>
    ELSE IF Strip(lines[i]) # "" /\ ~StartsWith(lines[i], "#")
    THEN <<Strip(lines[i])>> \o DescriptionLines(lines, i + 1, TRUE)
    ELSE IF in_paragraph /\ Strip(lines[i]) = "" THEN <<>>
    ELSE DescriptionLines(lines, i + 1, in_paragraph)

\* a component loop that puts each match in front of the list
RECURSIVE PrependComponents(_, _, _, _)
PrependComponents(content_lower, bounds, i, components_needed) ==
    IF i > Len(ComponentOrder) THEN components_needed
    ELSE LET component == ComponentOrder[i] IN
         PrependComponents(content_lower, bounds, i + 1,
             IF AnyPattern(COMPONENT_PATTERNS[component], content_lower, bounds)
                /\ ~InList(component, components_needed)
             THEN <<component>> \o components_needed
             ELSE components_needed)

\* a component loop without the "not in" test
RECURSIVE AppendComponents(_, _, _, _)
AppendComponents(content_lower, bounds, i, components_needed) ==
    IF i > Len(ComponentOrder) THEN components_needed
    ELSE LET component == ComponentOrder[i] IN
         AppendComponents(content_lower, bounds, i + 1,
             IF AnyPattern(COMPONENT_PATTERNS[component], content_lower, bounds)
             THEN Append(components_needed, component)
             ELSE components_needed)

RECURSIVE DetectComponents(_, _, _, _)
DetectComponents(content_lower, bounds, i, components_needed) ==
    IF i > Len(ComponentOrder) THEN components_needed
    ELSE LET component == ComponentOrder[i] IN
         DetectComponents(content_lower, bounds, i + 1,
             IF AnyPattern(COMPONENT_PATTERNS[component], content_lower, bounds)
                /\ ~InList(component, components_needed)
             THEN Append(components_needed, component)
             ELSE components_needed)

\* a technology loop without the break: the last matching technology stays
RECURSIVE LastMatchTech(_, _, _, _, _)
LastMatchTech(content_lower, bounds, category, i, stack_detected) ==
    IF i > Len(STACK_PATTERNS[category]) THEN stack_detected
    ELSE LET entry == STACK_PATTERNS[category][i]
         IN  LastMatchTech(content_lower, bounds, category, i + 1,
                 IF AnyPattern(entry.patterns, content_lower, bounds)
                 THEN [c \in DOMAIN stack_detected \cup {category} |->
                          IF c = category THEN entry.tech ELSE stack_detected[c]]
                 ELSE stack_detected)

\* "for tech, patterns in technologies.items()" of one category: a matching
\* technology is stored, and the loop stops as soon as the category has a value
RECURSIVE DetectTech(_, _, _, _, _)
DetectTech(content_lower, bounds, category, i, stack_detected) ==
    IF i > Len(STACK_PATTERNS[category]) THEN stack_detected
    ELSE LET entry == STACK_PATTERNS[category][i]
             after == IF AnyPattern(entry.patterns, content_lower, bounds)
                      THEN [c \in DOMAIN stack_detected \cup {category} |->
                               IF c = category THEN entry.tech ELSE stack_detected[c]]
                      ELSE stack_detected
         IN  IF category \in DOMAIN after THEN after
             ELSE DetectTech(content_lower, bounds, category, i + 1, after)

RECURSIVE DetectStack(_, _, _, _)
DetectStack(content_lower, bounds, i, stack_detected) ==
    IF i > Len(CategoryOrder) THEN stack_detected
    ELSE DetectStack(content_lower, bounds, i + 1,
                     DetectTech(content_lower, bounds, CategoryOrder[i], 1, stack_detected))

analyze_content(content, analysis) ==
    LET content_lower == Lower(content)
        bounds == Boundaries(content_lower)
        lines == SplitLines(content)
        stack_detected == DetectStack(content_lower, bounds, 1, analysis.stack_detected)
    IN  [analysis EXCEPT
            !.title = FindTitle(lines, 1, analysis.title),
            !.description = JoinSpace(DescriptionLines(lines, 2, FALSE)),
            !.components_needed = DetectComponents(content_lower, bounds, 1, analysis.components_needed),
            !.stack_detected = stack_detected,
            !.deployment_targets = determine_deployment_targets(content_lower, stack_detected),
            !.requirements = extract_requirements(content)]

(***************************************************************************)
(* SpecAnalyzer._analyze_tasks and its helpers                             *)
(***************************************************************************)
\* re.match(r'^- \[([ x])\] T\d+', line)
IsTaskLine(line) ==
    /\ StartsWith(line, "- [")
    /\ StartsAt(" ", line, 4) \/ StartsAt("x", line, 4)
    /\ StartsAt("] T", line, 5)
    /\ Len(line) >= 8 /\ IsDigit(CharAt(line, 8))

\* where re.search(r'@(\w+)', line) matches: the leftmost "@" before a word
\* character, 0 when there is none
MentionAt(line) ==
    LET starts == {i \in 1..Len(line) : CharAt(line, i) = "@" /\ IsWordAt(line, i + 1)}
    IN  IF starts = {} THEN 0 ELSE CHOOSE i \in starts : \A j \in starts : i <= j

\* f"@{agent_match.group(1)}"
Mention(line) ==
    LET i == MentionAt(line)
    IN  Slice(line, i, RunEnd(line, i + 1, WordSet, TRUE) - 1)

\* (?:\s+in\s+\S+)?$ from position q: nothing is left, or " in path" is
SuffixMatches(line, q) ==
    \/ q > Len(line)
    \/ LET a == RunEnd(line, q, Whitespace, TRUE)
           b == RunEnd(line, a + 2, Whitespace, TRUE)
       IN  /\ a > q
           /\ StartsAt("in", line, a)
           /\ b > a + 2
           /\ b <= Len(line)
           /\ RunEnd(line, b, Whitespace, FALSE) = Len(line) + 1

\* group(1) of re.search(r'@\w+\s+(.+?)(?:\s+in\s+\S+)?$', line) for the
\* match that starts at the "@" at i, as <<first, last>>; <<0, 0>> when the
\* pattern does not match from i.  \s+ is greedy and gives back one space
\* when nothing follows it; .+? is the shortest text the rest accepts.
DescriptionGroup(line, i) ==
    LET w == RunEnd(line, i + 1, WordSet, TRUE)
        s == RunEnd(line, w, Whitespace, TRUE)
    IN  IF CharAt(line, i) # "@" \/ w = i + 1 \/ s = w THEN <<0, 0>>
        ELSE IF s <= Len(line)
        THEN <<s, CHOOSE e \in s..Len(line) :
                     /\ SuffixMatches(line, e + 1)
                     /\ \A f \in s..(e - 1) : ~SuffixMatches(line, f + 1)>>
        ELSE IF s - w >= 2 THEN <<s - 1, s - 1>>
        ELSE <<0, 0>>

\* SpecAnalyzer._extract_task_description
extract_task_description(task_line) ==
    LET starts == {i \in 1..Len(task_line) : DescriptionGroup(task_line, i) # <<0, 0>>}
    IN  IF starts = {} THEN task_line
        ELSE LET g == DescriptionGroup(task_line, CHOOSE i \in starts : \A j \in starts : i <= j)
             IN  Slice(task_line, g[1], g[2])

\* recommend_agents (module level): list(assignments.keys())
recommend_agents(task_list) ==
    Keys(recommend_agents_for_tasks(task_list, AGENT_CAPABILITIES))

\* the counted lines of tasks.md
TaskLines(content) == SelectSeq(SplitLines(content), IsTaskLine)

\* mentions collected from every line of tasks.md, counted or not
MentionsOnAnyLine(content) ==
    LET lines == SplitLines(content)
    IN  {Mention(lines[i]) : i \in {n \in 1..Len(lines) : MentionAt(lines[n]) # 0}}

\* agent_mentions
AgentMentions(content) ==
    LET counted == TaskLines(content)
    IN  {Mention(counted[i]) : i \in {n \in 1..Len(counted) : MentionAt(counted[n]) # 0}}

\* list(agent_mentions) enumerates a set of str in hash order, which the
\* interpreter fixes per process: set_order is that order
analyze_tasks(content, analysis, set_order) ==
    LET counted == TaskLines(content)
        task_descriptions == [i \in 1..Len(counted) |-> extract_task_description(counted[i])]
    IN  [analysis EXCEPT
            !.tasks_count = @ + Len(counted),
            !.agents_recommended =
                IF AgentMentions(content) # {} THEN set_order
                ELSE recommend_agents(task_descriptions)]

(***************************************************************************)
(* SpecAnalyzer._enhance_from_plan                                         *)
(***************************************************************************)
\* append(handle) when triggered, whether or not the handle is in the list
AppendAnyway(agents_recommended, triggered, handle) ==
    IF triggered THEN Append(agents_recommended, handle) ELSE agents_recommended

\* "if handle not in agents_recommended: append(handle)", when triggered
Ensure(agents_recommended, triggered, handle) ==
    IF triggered /\ ~InList(handle, agents_recommended)
    THEN Append(agents_recommended, handle)
    ELSE agents_recommended

\* plan enhancement whose security check does not know encrypt
EnhanceWithoutEncrypt(content, analysis) ==
    LET content_lower == Lower(content)
        performance == AnyIn(<<"performance", "fast", "speed", "optimiz">>, content_lower)
        security == AnyIn(<<"security", "auth", "secure">>, content_lower)
        ui == AnyIn(<<"ui", "frontend", "react", "component", "interactive">>, content_lower)
    IN  [analysis EXCEPT
            !.agents_recommended =
                Ensure(Ensure(Ensure(@, performance, "@qwen"), security, "@claude"), ui, "@codex")]

enhance_from_plan(content, analysis) ==
    LET content_lower == Lower(content)
        performance == AnyIn(<<"performance", "fast", "speed", "optimiz">>, content_lower)
        security == AnyIn(<<"security", "auth", "encrypt", "secure">>, content_lower)
        ui == AnyIn(<<"ui", "frontend", "react", "component", "interactive">>, content_lower)
    IN  [analysis EXCEPT
            !.agents_recommended =
                Ensure(Ensure(Ensure(@, performance, "@qwen"), security, "@claude"), ui, "@codex")]

(***************************************************************************)
(* SpecAnalyzer._calculate_complexity.  The score has a 1.5 weight; twice  *)
(* the score is a whole number and is what is compared here.               *)
(***************************************************************************)
Flag(requirements, k, weight) == IF GetFlag(requirements, k) THEN weight ELSE 0

TwiceComplexityScore(analysis) ==
    Len(analysis.components_needed) * 2 * 2
    + 2 * (IF analysis.tasks_count < 20 THEN 1
           ELSE IF analysis.tasks_count < 50 THEN 3 ELSE 5)
    + Cardinality(DOMAIN analysis.stack_detected) * 3
    + 2 * (Flag(analysis.requirements, "security", 2)
           + Flag(analysis.requirements, "performance", 2)
           + Flag(analysis.requirements, "accessibility", 1)
           + Flag(analysis.requirements, "i18n", 1))

\* thresholds that put a score of exactly 5 or 15 in the lower bucket
InclusiveComplexity(analysis) ==
    LET twice == TwiceComplexityScore(analysis)
    IN  IF twice <= 2 * 5
        THEN [analysis EXCEPT !.complexity = "low", !.estimated_effort = "3-5 days"]
        ELSE IF twice <= 2 * 15
        THEN [analysis EXCEPT !.complexity = "medium", !.estimated_effort = "1-2 weeks"]
        ELSE [analysis EXCEPT !.complexity = "high", !.estimated_effort = "3-4 weeks"]

calculate_complexity(analysis) ==
    LET twice == TwiceComplexityScore(analysis)
    IN  IF twice < 2 * 5
        THEN [analysis EXCEPT !.complexity = "low", !.estimated_effort = "3-5 days"]
        ELSE IF twice < 2 * 15
        THEN [analysis EXCEPT !.complexity = "medium", !.estimated_effort = "1-2 weeks"]
        ELSE [analysis EXCEPT !.complexity = "high", !.estimated_effort = "3-4 weeks"]

(***************************************************************************)
(* SpecAnalyzer.analyze_spec.  A spec directory is its three files, each   *)
(* present with a text or missing.                                         *)
(***************************************************************************)
analyze_spec(dir, set_order) ==
    LET fresh == SpecAnalysis("", "")
        with_spec == IF dir.spec_md.exists
                     THEN analyze_content(dir.spec_md.text, fresh) ELSE fresh
        with_tasks == IF dir.tasks_md.exists
                      THEN analyze_tasks(dir.tasks_md.text, with_spec, set_order) ELSE with_spec
        with_plan == IF dir.plan_md.exists
                     THEN enhance_from_plan(dir.plan_md.text, with_tasks) ELSE with_tasks
    IN  calculate_complexity(with_plan)


\* ---------------------------------------------------------------------------
\* models/task.py
\* ---------------------------------------------------------------------------

\* class TaskStatus(str, Enum): the values a status can take
TaskStatus == {"pending", "in_progress", "completed"}

\* Task(id=..., description=..., assigned_agent=..., status=...)
NewTask(id, description, assigned_agent, status) ==
    [id |-> id, description |-> description, assigned_agent |-> assigned_agent,
     status |-> status, dependencies |-> <<>>]

\* every character of s from i up to, not including, j is a digit
AllDigits(s, i, j) == \A p \in i..(j - 1) : p <= Len(s) /\ IsDigit(CharAt(s, p))

\* what a method of Task leaves behind: the object and the exception raised
Outcome(self, exception) == [task |-> self, raised |-> exception]

\* mark_completed without its guard
UnguardedMarkCompleted(self) ==
    Outcome([self EXCEPT !.status = "completed"], "none")

\* Task.mark_in_progress
mark_in_progress(self) ==
    IF self.status # "pending" THEN Outcome(self, "ValueError")
    ELSE Outcome([self EXCEPT !.status = "in_progress"], "none")

\* Task.mark_completed
mark_completed(self) ==
    IF self.status # "in_progress" THEN Outcome(self, "ValueError")
    ELSE Outcome([self EXCEPT !.status = "completed"], "none")

\* Task.to_task_string
to_task_string(self) ==
    LET status_marker == IF self.status = "completed" THEN "x" ELSE " "
    IN  "- [" \o status_marker \o "] " \o self.id \o " " \o self.assigned_agent
            \o " " \o self.description

\* the character at place i of s, "" beyond its end
At(s, i) == IF i \in 1..Len(s) THEN CharAt(s, i) ELSE ""

\* Task.from_task_string: re.match of
\*   -\s+\[\s*\]\s+(T\d{3})\s+(@\w+)\s+(.+)
\* on the stripped string.  Each name is the place where the next part of the
\* pattern begins; every repetition is greedy and none can give a character
\* back to the part after it, so there is one way to match.
from_task_string(task_string) ==
    LET s == Strip(task_string)
        bracket == RunEnd(s, 2, Whitespace, TRUE)
        closing == RunEnd(s, bracket + 1, Whitespace, TRUE)
        id_at == RunEnd(s, closing + 1, Whitespace, TRUE)
        after_id == id_at + 4
        agent_at == RunEnd(s, after_id, Whitespace, TRUE)
        after_agent == RunEnd(s, agent_at + 1, WordSet, TRUE)
        text_at == RunEnd(s, after_agent, Whitespace, TRUE)
        line_end == RunEnd(s, text_at, {"\n"}, FALSE)
        matched ==
            /\ At(s, 1) = "-"
            /\ bracket > 2 /\ At(s, bracket) = "["
            /\ At(s, closing) = "]"
            /\ id_at > closing + 1 /\ At(s, id_at) = "T"
            /\ after_id <= Len(s) + 1 /\ AllDigits(s, id_at + 1, after_id)
            /\ agent_at > after_id /\ At(s, agent_at) = "@"
            /\ after_agent > agent_at + 1
            /\ text_at > after_agent
            /\ line_end > text_at
    IN  IF ~matched THEN Outcome("None", "ValueError")
        ELSE Outcome(NewTask(Slice(s, id_at, after_id - 1),
                             Strip(Slice(s, text_at, line_end - 1)),
                             Slice(s, agent_at, after_agent - 1), "pending"),
                     "none")

\* ---------------------------------------------------------------------------
\* the analysis object of a call
\* ---------------------------------------------------------------------------

\* one analysis object kept on the SpecAnalyzer and shared by every call
SharedAnalysis(frames, t) == frames[1].analysis

\* ---------------------------------------------------------------------------
\* models/agent_swarm.py.  A swarm holds its tasks by reference: heap maps
\* the references to the Task objects.  Timestamps are left out of log
\* entries; completed_at is None or the time it was set.
\* ---------------------------------------------------------------------------

\* AgentSwarm(id=..., agents=...)
NewSwarm(id, agents) ==
    [id |-> id, agents |-> agents, tasks |-> <<>>, status |-> "deployed",
     logs |-> <<>>, completed_at |-> "None"]

\* what a method of AgentSwarm leaves behind: the swarm, the Task objects and
\* the exception raised
SwarmOutcome(self, heap, exception) == [swarm |-> self, objects |-> heap, raised |-> exception]

\* AgentSwarm.log_activity
log_activity(self, agent, task_id, message) ==
    [self EXCEPT !.logs = Append(@, [agent |-> agent, task_id |-> task_id,
                                     message |-> message, level |-> "info"])]

\* add_task that appends the task before it looks at the agent
AppendThenCheck(self, heap, ref) ==
    IF ~InList(heap[ref].assigned_agent, self.agents)
    THEN SwarmOutcome([self EXCEPT !.tasks = Append(@, ref)], heap, "ValueError")
    ELSE SwarmOutcome(log_activity([self EXCEPT !.tasks = Append(@, ref)],
                                   heap[ref].assigned_agent, heap[ref].id,
                                   "Task " \o heap[ref].id \o " added to swarm"),
                      heap, "none")

\* AgentSwarm.add_task
add_task(self, heap, ref) ==
    IF ~InList(heap[ref].assigned_agent, self.agents)
    THEN SwarmOutcome(self, heap, "ValueError")
    ELSE SwarmOutcome(log_activity([self EXCEPT !.tasks = Append(@, ref)],
                                   heap[ref].assigned_agent, heap[ref].id,
                                   "Task " \o heap[ref].id \o " added to swarm"),
                      heap, "none")

\* get_pending_tasks, get_in_progress_tasks, get_completed_tasks: the places
\* in self.tasks of the tasks in a status
TasksIn(self, heap, status) ==
    {i \in 1..Len(self.tasks) : heap[self.tasks[i]].status = status}

\* AgentSwarm._get_task_by_id: the place of the first task with the id, 0
\* when the loop ends without one
get_task_by_id(self, heap, task_id) ==
    LET found == {i \in 1..Len(self.tasks) : heap[self.tasks[i]].id = task_id}
    IN  IF found = {} THEN 0 ELSE CHOOSE i \in found : \A j \in found : i <= j

\* _update_status that completes a swarm with no open task whatever its status
UnguardedUpdateStatus(self, heap) ==
    IF TasksIn(self, heap, "pending") = {} /\ TasksIn(self, heap, "in_progress") = {}
    THEN [self EXCEPT !.status = "completed", !.completed_at = "now"]
    ELSE IF TasksIn(self, heap, "in_progress") # {}
    THEN [self EXCEPT !.status = "running"]
    ELSE self

\* AgentSwarm._update_status
update_status(self, heap) ==
    IF self.status = "deployed" /\ TasksIn(self, heap, "in_progress") # {}
    THEN [self EXCEPT !.status = "running"]
    ELSE IF /\ self.status = "running"
            /\ TasksIn(self, heap, "pending") = {}
            /\ TasksIn(self, heap, "in_progress") = {}
    THEN [self EXCEPT !.status = "completed", !.completed_at = "now"]
    ELSE self

\* the end of start_task and complete_task: log_activity, then _update_status
LogAndUpdate(self, heap, agent, task_id, message) ==
    SwarmOutcome(update_status(log_activity(self, agent, task_id, message), heap), heap, "none")

\* AgentSwarm.start_task
start_task(self, heap, task_id) ==
    LET i == get_task_by_id(self, heap, task_id)
    IN  IF i = 0 THEN SwarmOutcome(self, heap, "ValueError")
        ELSE LET marked == mark_in_progress(heap[self.tasks[i]])
             IN  IF marked.raised # "none" THEN SwarmOutcome(self, heap, marked.raised)
                 ELSE LogAndUpdate(self, [heap EXCEPT ![self.tasks[i]] = marked.task],
                                   marked.task.assigned_agent, task_id,
                                   "Task " \o task_id \o " started")

\* AgentSwarm.complete_task
complete_task(self, heap, task_id) ==
    LET i == get_task_by_id(self, heap, task_id)
    IN  IF i = 0 THEN SwarmOutcome(self, heap, "ValueError")
        ELSE LET marked == mark_completed(heap[self.tasks[i]])
             IN  IF marked.raised # "none" THEN SwarmOutcome(self, heap, marked.raised)
                 ELSE LogAndUpdate(self, [heap EXCEPT ![self.tasks[i]] = marked.task],
                                   marked.task.assigned_agent, task_id,
                                   "Task " \o task_id \o " completed")

\* AgentSwarm.is_completed
is_completed(self) == self.status = "completed"

\* ---------------------------------------------------------------------------
\* the validators of the models and AgentSwarm.create_for_spec
\* ---------------------------------------------------------------------------

\* "$" of re.match: the end of the string, or the place before a last "\n"
AtEnd(v, i) == i = Len(v) + 1 \/ (i = Len(v) /\ CharAt(v, i) = "\n")

\* every character of v from i up to, not including, j is in chars
AllIn(v, i, j, chars) == \A p \in i..(j - 1) : CharAt(v, p) \in chars

\* Spec.validate_id: re.match(r'^\d{3}-[a-z-]+$', v)
IsSpecId(v) ==
    /\ Len(v) >= 4
    /\ AllIn(v, 1, 4, DigitSet)
    /\ CharAt(v, 4) = "-"
    /\ \E end \in 6..(Len(v) + 1) :
        /\ AllIn(v, 5, end, CharsOf(LowerChars) \cup {"-"})
        /\ AtEnd(v, end)

\* AgentSwarm.validate_id: re.match(r'^swarm-\d{8}-\w+$', v)
IsSwarmId(v) ==
    /\ Len(v) >= 15
    /\ StartsWith(v, "swarm-")
    /\ AllIn(v, 7, 15, DigitSet)
    /\ CharAt(v, 15) = "-"
    /\ \E end \in 17..(Len(v) + 1) :
        /\ AllIn(v, 16, end, WordSet)
        /\ AtEnd(v, end)

\* ', '.join(strings)
RECURSIVE JoinComma(_)
JoinComma(strings) ==
    IF strings = <<>> THEN ""
    ELSE IF Len(strings) = 1 THEN Head(strings)
    ELSE Head(strings) \o ", " \o JoinComma(Tail(strings))

\* AgentSwarm(id=..., agents=...): the validators run on the fields in the
\* order of their declaration
ConstructSwarm(id, agents) ==
    IF ~IsSwarmId(id) \/ agents = <<>>
    THEN [swarm |-> "None", raised |-> "ValidationError"]
    ELSE [swarm |-> NewSwarm(id, agents), raised |-> "none"]

\* AgentSwarm.create_for_spec; today is datetime.now().strftime('%Y%m%d')
create_for_spec(spec_id, agents, today) ==
    LET constructed == ConstructSwarm("swarm-" \o today \o "-" \o spec_id, agents)
    IN  IF constructed.raised # "none" THEN constructed
        ELSE [swarm |-> log_activity(constructed.swarm, "system", "None",
                                     "Swarm created for spec " \o spec_id
                                       \o " with agents " \o JoinComma(agents)),
              raised |-> "none"]

\* ---------------------------------------------------------------------------
\* ops/commands/swarm_deploy.py.  A spec directory is its name, whether it
\* exists, its tasks.md and the three files a run writes: swarm_status.json
\* and swarm_monitoring.json, each missing or holding the JSON object written,
\* and the events of swarm_log.jsonl.  Timestamps are left out.
\* ---------------------------------------------------------------------------
NoFile == [exists |-> FALSE]

NewDirectory(name) ==
    [name |-> name, exists |-> FALSE, tasks_md |-> Missing, swarm_status |-> NoFile,
     swarm_monitoring |-> NoFile, swarm_log |-> <<>>]

\* the Task dataclass of models/__init__.py, the one swarm_deploy imports
DeployTask(id, description, assigned_agent) ==
    [id |-> id, description |-> description, assigned_agent |-> assigned_agent,
     status |-> "pending"]

\* the AgentSwarm dataclass of models/__init__.py: it validates nothing
DeploySwarm(id, agents, deploy_tasks, status) ==
    [id |-> id, agents |-> agents, tasks |-> deploy_tasks, status |-> status]

\* the line boundaries of str.splitlines() that a string of the model holds
LineBreaks == {"\n", "\r", "\f"}

\* content.splitlines(): "\r\n" is one boundary, and a boundary at the end
\* of the content starts no further line
RECURSIVE SplitlinesFrom(_, _)
SplitlinesFrom(content, i) ==
    LET end == RunEnd(content, i, LineBreaks, FALSE)
        next == IF /\ end < Len(content)
                   /\ CharAt(content, end) = "\r"
                   /\ CharAt(content, end + 1) = "\n"
                THEN end + 2 ELSE end + 1
    IN  IF i > Len(content) THEN <<>>
        ELSE <<Slice(content, i, end - 1)>> \o SplitlinesFrom(content, next)

Splitlines(content) == SplitlinesFrom(content, 1)

\* s.split(sep) for a separator of one character
RECURSIVE SplitOnFrom(_, _, _)
SplitOnFrom(s, sep, i) ==
    LET end == RunEnd(s, i, {sep}, FALSE)
    IN  <<Slice(s, i, end - 1)>>
        \o (IF end > Len(s) THEN <<>> ELSE SplitOnFrom(s, sep, end + 1))

SplitOn(s, sep) == SplitOnFrom(s, sep, 1)

\* [x.strip() for x in strings]
RECURSIVE StripEach(_)
StripEach(strings) ==
    IF strings = <<>> THEN <<>>
    ELSE <<Strip(Head(strings))>> \o StripEach(Tail(strings))

\* s.split(c, maxsplit=1)[1].split()[0] as a list: the token, or no element
\* where one of the two subscripts raises IndexError
TokenAfter(s, c) ==
    LET at == {p \in 1..Len(s) : CharAt(s, p) = c}
        first == CHOOSE p \in at : \A q \in at : p <= q
        words == Split(Slice(s, first + 1, Len(s)))
    IN  IF at = {} THEN <<>>
        ELSE IF words = <<>> THEN <<>>
        ELSE <<words[1]>>

\* the condition of swarm_deploy.py:43 on a stripped line
IsTaggedLine(stripped) == StartsWith(stripped, "- [") /\ Contains("@", stripped)

\* the loop of _parse_tasks from line i on, parsed being the tasks so far
RECURSIVE ParseTaskLines(_, _, _)
ParseTaskLines(lines, i, parsed) ==
    IF i > Len(lines) THEN [tasks |-> parsed, error |-> "none"]
    ELSE LET stripped == Strip(lines[i])
             task_id == TokenAfter(stripped, "T")
             agent_alias == TokenAfter(stripped, "@")
         IN  IF ~IsTaggedLine(stripped) THEN ParseTaskLines(lines, i + 1, parsed)
             ELSE IF task_id = <<>> \/ agent_alias = <<>>
                  THEN [tasks |-> parsed, error |-> "Malformed task line: " \o stripped]
             ELSE ParseTaskLines(lines, i + 1,
                      Append(parsed, DeployTask("T" \o task_id[1], stripped,
                                                "@" \o agent_alias[1])))

\* _parse_tasks: the tasks, or the message of the SwarmDeployError raised
parse_tasks(tasks_file) ==
    LET outcome == ParseTaskLines(Splitlines(tasks_file.text), 1, <<>>)
    IN  IF outcome.error = "none" /\ outcome.tasks = <<>>
        THEN [tasks |-> <<>>, error |-> "No open tasks found in tasks.md"]
        ELSE outcome

\* the keyword arguments of a _log_event call; a key the call does not pass
\* is the empty list, the empty string or 0
Details(agents, message, tasks_assigned) ==
    [agents |-> agents, message |-> message, tasks_assigned |-> tasks_assigned]

\* _log_event: one more line in swarm_log.jsonl
log_event(dir, event, swarm_id, details) ==
    [dir EXCEPT !.swarm_log =
        Append(@, [event |-> event, swarm_id |-> swarm_id, details |-> details])]

MonitoringUrl(swarm_id) == "http://localhost:8000/monitor/" \o swarm_id

\* _write_status
write_status(dir, deployed) ==
    [dir EXCEPT !.swarm_status =
        [exists |-> TRUE, swarm_id |-> deployed.id, agents |-> deployed.agents,
         tasks_assigned |-> Len(deployed.tasks),
         monitoring_url |-> MonitoringUrl(deployed.id), status |-> deployed.status]]

\* _write_monitoring
write_monitoring(dir, deployed) ==
    [dir EXCEPT !.swarm_monitoring =
        [exists |-> TRUE, monitoring_url |-> MonitoringUrl(deployed.id),
         metrics |-> [agent_count |-> Len(deployed.agents),
                      tasks_assigned |-> Len(deployed.tasks)],
         status |-> deployed.status]]

\* _rollback: artefacts holds, for each of the two files, its name or "None"
rollback(dir, artefacts, swarm_id, reason) ==
    LET unlinked ==
            [dir EXCEPT
                !.swarm_status = IF InList("swarm_status.json", artefacts) THEN NoFile ELSE @,
                !.swarm_monitoring =
                    IF InList("swarm_monitoring.json", artefacts) THEN NoFile ELSE @]
    IN  log_event(unlinked, "rollback", swarm_id, Details(<<>>, reason, 0))

\* the agents as given, not stripped
UnstrippedAgents(args_agents) ==
    IF args_agents = "None" \/ args_agents = "" THEN <<"@copilot">>
    ELSE SplitOn(args_agents, ",")

\* the agents of swarm_deploy.py:119; args_agents is "None" without --agents
ParseAgents(args_agents) ==
    IF args_agents = "None" \/ args_agents = "" THEN <<"@copilot">>
    ELSE StripEach(SplitOn(args_agents, ","))

\* what the except clause of main hands to _rollback: status_file and
\* monitoring_file, both still None when _parse_tasks raises
ArtefactsOnError == <<"None", "None">>

\* main: the directory as the run leaves it, and the exit code
main(dir, args_agents) ==
    LET agents == ParseAgents(args_agents)
        swarm_id == "swarm-" \o dir.name
        started == log_event(dir, "start", swarm_id, Details(agents, "", 0))
        parsed == parse_tasks(dir.tasks_md)
        deployed == DeploySwarm(swarm_id, agents, parsed.tasks, "deployed")
        written == write_monitoring(write_status(started, deployed), deployed)
        failed == log_event(started, "error", swarm_id, Details(<<>>, parsed.error, 0))
    IN  IF ~dir.exists \/ ~dir.tasks_md.exists
        THEN [directory |-> dir, exit_code |-> 1]
        ELSE IF parsed.error = "none"
        THEN [directory |-> log_event(written, "completed", swarm_id,
                                     Details(<<>>, "", Len(parsed.tasks))),
              exit_code |-> 0]
        ELSE [directory |-> rollback(failed, ArtefactsOnError, swarm_id, parsed.error),
              exit_code |-> 1]
(***************************************************************************)
(* The state: the registry of the router, and the arguments, locals and    *)
(* result of the call in progress.  Every operation is a complete call on  *)
(* a router or analyzer; Return drops its frame.                           *)
(***************************************************************************)
VARIABLES
    op,                 \* the operation that was called, "idle" between calls
    capabilities,       \* AgentRouter.capabilities
    task_description,   \* argument of recommend_agent
    scores,             \* recommend_agent's scores dict
    recommended,        \* handle returned by recommend_agent
    tasks,              \* argument of the batch operations
    assignments,        \* handle -> task list: argument or result
    workloads,          \* handle -> percentage
    raised,             \* the exception the call raised, "none" otherwise
    spec_dir,           \* the files under spec_path
    analysis,           \* the SpecAnalysis built by analyze_spec
    before,             \* the SpecAnalysis the call was handed, or an earlier call returned
    threads,            \* the frames of the analyze_spec calls that run concurrently
    task,               \* a Task object
    swarm,              \* an AgentSwarm object
    objects,            \* the Task objects a swarm's tasks refer to
    returned,           \* what the call in progress returned
    directory,          \* the files of the spec directory swarm-deploy runs on
    argv                \* the arguments of the command in progress

vars == <<op, capabilities, task_description, scores, recommended, tasks,
          assignments, workloads, raised, spec_dir, analysis, before, threads, task,
          swarm, objects, returned, directory, argv>>

NoDir == [spec_md |-> Missing, tasks_md |-> Missing, plan_md |-> Missing]

NoFrame ==
    /\ task_description = ""
    /\ scores = EmptyDict
    /\ recommended = ""
    /\ tasks = <<>>
    /\ assignments = EmptyDict
    /\ workloads = EmptyDict
    /\ raised = "none"
    /\ spec_dir = NoDir
    /\ analysis = SpecAnalysis("", "")
    /\ before = SpecAnalysis("", "")
    /\ returned = "None"
    /\ argv = <<>>

\* the frame of a thread that is not inside analyze_spec
IdleThread ==
    [pc |-> "idle", spec_dir |-> NoDir, set_order |-> <<>>, analysis |-> SpecAnalysis("", "")]

NoThreads == [t \in 1..MaxThreads |-> IdleThread]

\* the Task objects at hand: T002 depends on T001, the agent of T003 is in
\* no swarm of the model, two objects have the id T001, and T004 was started
\* before any swarm got it
TaskObjects ==
    << NewTask("T001", "Setup", "@copilot", "pending"),
       [NewTask("T002", "Deploy", "@claude", "pending") EXCEPT !.dependencies = <<"T001">>],
       NewTask("T003", "Research", "@gemini", "pending"),
       NewTask("T001", "Review", "@claude", "pending"),
       NewTask("T004", "Audit", "@copilot", "in_progress") >>

\* a swarm of two agents as its constructor leaves it, the Task objects as
\* theirs, and a spec directory no run has touched
NoSwarmCalls ==
    /\ swarm = NewSwarm("swarm-20240101-auth", <<"@copilot", "@claude">>)
    /\ objects = TaskObjects
    /\ directory = NewDirectory("spec-swarm")

\* no analysis is running in a thread, and the Task object is a fresh one
NoObjects ==
    /\ threads = NoThreads
    /\ task = NewTask("T001", "Setup", "@copilot", "pending")
    /\ NoSwarmCalls

\* AgentRouter.__init__
Init ==
    /\ op = "idle"
    /\ capabilities = AGENT_CAPABILITIES
    /\ NoFrame
    /\ NoObjects

\* a router whose registry has another parallel_capacity
InitRegistry ==
    /\ op = "idle"
    /\ capabilities \in Registries
    /\ NoFrame
    /\ NoObjects

\* assignments handed to get_agent_workload: up to MaxLoad tasks per handle
AssignmentInputs ==
    UNION {[keys -> {Repeat("task", n) : n \in 0..MaxLoad}] : keys \in SUBSET Handles}

\* the orders in which a set can be enumerated
Orders(set) ==
    {order \in [1..Cardinality(set) -> set] : \A e \in set : \E i \in DOMAIN order : order[i] = e}

CallRecommendAgent ==
    /\ op = "idle"
    /\ \E d \in TaskDescriptions :
        /\ op' = "recommend_agent"
        /\ task_description' = d
        /\ scores' = Scores(d, capabilities)
        /\ recommended' = Recommended(scores')
    /\ UNCHANGED <<capabilities, tasks, assignments, workloads, raised, spec_dir, analysis, before,
                   threads, task,
                   swarm, objects, returned, directory, argv>>

CallRecommendAgentsForTasks ==
    /\ op = "idle"
    /\ \E task_list \in TaskLists :
        /\ op' = "recommend_agents_for_tasks"
        /\ tasks' = task_list
        /\ assignments' = recommend_agents_for_tasks(task_list, capabilities)
    /\ UNCHANGED <<capabilities, task_description, scores, recommended, workloads, raised,
                   spec_dir, analysis, before,
                   threads, task,
                   swarm, objects, returned, directory, argv>>

CallGetAgentWorkload ==
    /\ op = "idle"
    /\ \E asg \in AssignmentInputs :
        /\ op' = "get_agent_workload"
        /\ assignments' = asg
        /\ workloads' = get_agent_workload(asg, capabilities)
    /\ UNCHANGED <<capabilities, task_description, scores, recommended, tasks, raised,
                   spec_dir, analysis, before,
                   threads, task,
                   swarm, objects, returned, directory, argv>>

CallBalanceWorkload ==
    /\ op = "idle"
    /\ \E task_list \in TaskLists :
        \E r \in {balance_workload(task_list, capabilities)} :
        /\ op' = "balance_workload"
        /\ tasks' = task_list
        /\ assignments' = r.assignments
        /\ raised' = r.raised
    /\ UNCHANGED <<capabilities, task_description, scores, recommended, workloads,
                   spec_dir, analysis, before,
                   threads, task,
                   swarm, objects, returned, directory, argv>>

CallAnalyzeSpec ==
    /\ op = "idle"
    /\ \E dir \in SpecDirs :
        \E set_order \in Orders(IF dir.tasks_md.exists
                                THEN AgentMentions(dir.tasks_md.text) ELSE {}) :
            /\ op' = "analyze_spec"
            /\ spec_dir' = dir
            /\ analysis' = analyze_spec(dir, set_order)
    /\ UNCHANGED <<capabilities, task_description, scores, recommended, tasks, assignments,
                   workloads, raised, before,
                   threads, task,
                   swarm, objects, returned, directory, argv>>

\* analyses handed to _calculate_complexity: up to MaxComponents components,
\* task counts on both sides of 20 and 50, up to one technology per category,
\* and requirements as analyze_spec leaves them (empty without spec.md)
TaskCounts == {0, 19, 20, 49, 50}

StackInputs ==
    {[category \in {CategoryOrder[i] : i \in 1..n} |-> STACK_PATTERNS[category][1].tech] :
        n \in 0..Len(CategoryOrder)}

RequirementInputs ==
    {EmptyDict} \cup
    {[functional |-> <<>>, non_functional |-> <<>>, security |-> s, performance |-> p,
      accessibility |-> a, i18n |-> i] : s \in BOOLEAN, p \in BOOLEAN, a \in BOOLEAN, i \in BOOLEAN}

ComplexityInputs ==
    {[SpecAnalysis("", "") EXCEPT !.components_needed = SubSeq(ComponentOrder, 1, c),
                                  !.tasks_count = t,
                                  !.stack_detected = s,
                                  !.requirements = r] :
        c \in 0..MaxComponents, t \in TaskCounts, s \in StackInputs, r \in RequirementInputs}

CallCalculateComplexity ==
    /\ op = "idle"
    /\ \E input \in ComplexityInputs :
        /\ op' = "calculate_complexity"
        /\ before' = input
        /\ analysis' = calculate_complexity(input)
    /\ UNCHANGED <<capabilities, task_description, scores, recommended, tasks, assignments,
                   workloads, raised, spec_dir, threads, task,
                   swarm, objects, returned, directory, argv>>

\* _analyze_content on the text of a spec.md and a fresh analysis
CallAnalyzeContent ==
    /\ op = "idle"
    /\ \E content \in SpecDocuments :
        /\ op' = "analyze_content"
        /\ spec_dir' = [NoDir EXCEPT !.spec_md = File(content)]
        /\ analysis' = analyze_content(content, SpecAnalysis("", ""))
    /\ UNCHANGED <<capabilities, task_description, scores, recommended, tasks, assignments,
                   workloads, raised, before, threads, task,
                   swarm, objects, returned, directory, argv>>

\* _analyze_content once more on the same text, handed the analysis it
\* returned or a fresh one
CallAnalyzeContentAgain ==
    /\ op \in {"analyze_content", "analyze_content_again"}
    /\ \E target \in {analysis, SpecAnalysis("", "")} :
        /\ op' = "analyze_content_again"
        /\ before' = analysis
        /\ analysis' = analyze_content(spec_dir.spec_md.text, target)
    /\ UNCHANGED <<capabilities, task_description, scores, recommended, tasks, assignments,
                   workloads, raised, spec_dir, threads, task,
                   swarm, objects, returned, directory, argv>>

\* agents_recommended as _analyze_tasks leaves it: up to MaxAgents handles,
\* none of them twice
AgentLists ==
    UNION {{list \in [1..n -> Handles] : \A i \in 1..n : \A j \in 1..n : list[i] = list[j] => i = j} :
            n \in 0..MaxAgents}

\* _enhance_from_plan on the text of a plan.md
CallEnhanceFromPlan ==
    /\ op = "idle"
    /\ \E content \in PlanDocuments : \E list \in AgentLists :
        /\ op' = "enhance_from_plan"
        /\ spec_dir' = [NoDir EXCEPT !.plan_md = File(content)]
        /\ before' = [SpecAnalysis("", "") EXCEPT !.agents_recommended = list]
        /\ analysis' = enhance_from_plan(content, before')
    /\ UNCHANGED <<capabilities, task_description, scores, recommended, tasks, assignments,
                   workloads, raised, threads, task,
                   swarm, objects, returned, directory, argv>>

\* the directories analysed concurrently
ConcurrentDirs ==
    { [spec_md |-> File("# Site\n\nReact frontend on Vercel, simple.\n"),
       tasks_md |-> File("# Tasks\n\n- [ ] T001 @copilot Create test setup\n- [ ] T002 @claude Review test setup in tests/setup.py\n"),
       plan_md |-> File("Focus on speed.\n")],
      [spec_md |-> Missing,
       tasks_md |-> File("- [ ] T001 Create REST API endpoints\n- [x] T002 Write documentation\nnot a task\n- [ ] TODO later\n"),
       plan_md |-> Missing],
      [spec_md |-> File("# Port\n\nStripe payments first, then login. Rails app moving to Django.\n"),
       tasks_md |-> File("## Tasks\n"),
       plan_md |-> File("Build the dashboard.\n")] }

\* the local variable analysis of the analyze_spec call that runs in thread t
LocalAnalysis(frames, t) == frames[t].analysis

\* thread t enters analyze_spec on a directory no other call is working on
ThreadCallAnalyzeSpec ==
    /\ \E t \in DOMAIN threads : \E dir \in ConcurrentDirs :
        \E set_order \in Orders(IF dir.tasks_md.exists
                                THEN AgentMentions(dir.tasks_md.text) ELSE {}) :
            /\ threads[t].pc = "idle"
            /\ \A u \in DOMAIN threads : threads[u].pc # "idle" => threads[u].spec_dir # dir
            /\ threads' = [threads EXCEPT ![t] =
                    [pc |-> "spec_md", spec_dir |-> dir, set_order |-> set_order,
                     analysis |-> SpecAnalysis("", "")]]
    /\ UNCHANGED <<op, capabilities, task_description, scores, recommended, tasks, assignments,
                   workloads, raised, spec_dir, analysis, before, task,
                   swarm, objects, returned, directory, argv>>

\* spec.md is read and analysed
ThreadAnalyzeContent ==
    /\ \E t \in DOMAIN threads :
        /\ threads[t].pc = "spec_md"
        /\ threads' = [threads EXCEPT
                ![t].pc = "tasks_md",
                ![t].analysis =
                    IF threads[t].spec_dir.spec_md.exists
                    THEN analyze_content(threads[t].spec_dir.spec_md.text, LocalAnalysis(threads, t))
                    ELSE LocalAnalysis(threads, t)]
    /\ UNCHANGED <<op, capabilities, task_description, scores, recommended, tasks, assignments,
                   workloads, raised, spec_dir, analysis, before, task,
                   swarm, objects, returned, directory, argv>>

\* tasks.md is read and analysed
ThreadAnalyzeTasks ==
    /\ \E t \in DOMAIN threads :
        /\ threads[t].pc = "tasks_md"
        /\ threads' = [threads EXCEPT
                ![t].pc = "plan_md",
                ![t].analysis =
                    IF threads[t].spec_dir.tasks_md.exists
                    THEN analyze_tasks(threads[t].spec_dir.tasks_md.text,
                                       LocalAnalysis(threads, t), threads[t].set_order)
                    ELSE LocalAnalysis(threads, t)]
    /\ UNCHANGED <<op, capabilities, task_description, scores, recommended, tasks, assignments,
                   workloads, raised, spec_dir, analysis, before, task,
                   swarm, objects, returned, directory, argv>>

\* plan.md is read and the analysis enhanced
ThreadEnhanceFromPlan ==
    /\ \E t \in DOMAIN threads :
        /\ threads[t].pc = "plan_md"
        /\ threads' = [threads EXCEPT
                ![t].pc = "complexity",
                ![t].analysis =
                    IF threads[t].spec_dir.plan_md.exists
                    THEN enhance_from_plan(threads[t].spec_dir.plan_md.text, LocalAnalysis(threads, t))
                    ELSE LocalAnalysis(threads, t)]
    /\ UNCHANGED <<op, capabilities, task_description, scores, recommended, tasks, assignments,
                   workloads, raised, spec_dir, analysis, before, task,
                   swarm, objects, returned, directory, argv>>

\* the complexity is calculated; the analysis is what the call returns
ThreadCalculateComplexity ==
    /\ \E t \in DOMAIN threads :
        /\ threads[t].pc = "complexity"
        /\ threads' = [threads EXCEPT
                ![t].pc = "return",
                ![t].analysis = calculate_complexity(LocalAnalysis(threads, t))]
    /\ UNCHANGED <<op, capabilities, task_description, scores, recommended, tasks, assignments,
                   workloads, raised, spec_dir, analysis, before, task,
                   swarm, objects, returned, directory, argv>>

\* the call returns and its frame is gone
ThreadReturn ==
    /\ \E t \in DOMAIN threads :
        /\ threads[t].pc = "return"
        /\ threads' = [threads EXCEPT ![t] = IdleThread]
    /\ UNCHANGED <<op, capabilities, task_description, scores, recommended, tasks, assignments,
                   workloads, raised, spec_dir, analysis, before, task,
                   swarm, objects, returned, directory, argv>>

\* Task objects as the constructor and from_task_string make them: pending
TaskInputs ==
    {NewTask(id, description, assigned_agent, "pending") :
        id \in {"T001", "T002"}, description \in {"Setup", "Deploy", "Write docs"},
        assigned_agent \in Handles}

\* a Task object, and nothing else, when the calls begin
InitTask ==
    /\ op = "idle"
    /\ capabilities = AGENT_CAPABILITIES
    /\ NoFrame
    /\ threads = NoThreads
    /\ task \in TaskInputs
    /\ NoSwarmCalls

CallMarkInProgress ==
    /\ op = "idle"
    /\ \E r \in {mark_in_progress(task)} :
        /\ op' = "mark_in_progress"
        /\ task' = r.task
        /\ raised' = r.raised
    /\ UNCHANGED <<capabilities, task_description, scores, recommended, tasks, assignments,
                   workloads, spec_dir, analysis, before, threads,
                   swarm, objects, returned, directory, argv>>

CallMarkCompleted ==
    /\ op = "idle"
    /\ \E r \in {mark_completed(task)} :
        /\ op' = "mark_completed"
        /\ task' = r.task
        /\ raised' = r.raised
    /\ UNCHANGED <<capabilities, task_description, scores, recommended, tasks, assignments,
                   workloads, spec_dir, analysis, before, threads,
                   swarm, objects, returned, directory, argv>>

\* t.to_task_string()
CallToTaskString ==
    /\ op = "idle"
    /\ op' = "to_task_string"
    /\ returned' = to_task_string(task)
    /\ UNCHANGED <<capabilities, task_description, scores, recommended, tasks, assignments,
                   workloads, raised, spec_dir, analysis, before, threads, task,
                   swarm, objects, directory, argv>>

\* Task.from_task_string on the string to_task_string has returned
CallFromTaskString ==
    /\ op = "to_task_string"
    /\ \E r \in {from_task_string(returned)} :
        /\ op' = "from_task_string"
        /\ argv' = <<returned>>
        /\ returned' = r.task
        /\ raised' = r.raised
    /\ UNCHANGED <<capabilities, task_description, scores, recommended, tasks, assignments,
                   workloads, spec_dir, analysis, before, threads, task,
                   swarm, objects, directory>>

\* the ids start_task and complete_task are called with
TaskIds == {"T001", "T002", "T003", "T004"}

\* add_task with one of the Task objects
CallAddTask ==
    /\ op = "idle"
    /\ Len(swarm.logs) < MaxLogs
    /\ \E ref \in DOMAIN objects : \E r \in {add_task(swarm, objects, ref)} :
        /\ op' = "add_task"
        /\ argv' = <<ref>>
        /\ swarm' = r.swarm
        /\ objects' = r.objects
        /\ raised' = r.raised
    /\ UNCHANGED <<capabilities, task_description, scores, recommended, tasks, assignments,
                   workloads, spec_dir, analysis, before, threads, task, returned, directory>>

CallStartTask ==
    /\ op = "idle"
    /\ Len(swarm.logs) < MaxLogs
    /\ \E task_id \in TaskIds : \E r \in {start_task(swarm, objects, task_id)} :
        /\ op' = "start_task"
        /\ argv' = <<task_id>>
        /\ swarm' = r.swarm
        /\ objects' = r.objects
        /\ raised' = r.raised
    /\ UNCHANGED <<capabilities, task_description, scores, recommended, tasks, assignments,
                   workloads, spec_dir, analysis, before, threads, task, returned, directory>>

CallCompleteTask ==
    /\ op = "idle"
    /\ Len(swarm.logs) < MaxLogs
    /\ \E task_id \in TaskIds : \E r \in {complete_task(swarm, objects, task_id)} :
        /\ op' = "complete_task"
        /\ argv' = <<task_id>>
        /\ swarm' = r.swarm
        /\ objects' = r.objects
        /\ raised' = r.raised
    /\ UNCHANGED <<capabilities, task_description, scores, recommended, tasks, assignments,
                   workloads, spec_dir, analysis, before, threads, task, returned, directory>>

\* a second analyze_spec on the same directory, in this process or in another
\* one, whose interpreter enumerates the set of mentions in its own order
CallAnalyzeSpecAgain ==
    /\ op = "analyze_spec"
    /\ \E set_order \in Orders(IF spec_dir.tasks_md.exists
                                THEN AgentMentions(spec_dir.tasks_md.text) ELSE {}) :
            /\ op' = "analyze_spec_again"
            /\ before' = analysis
            /\ analysis' = analyze_spec(spec_dir, set_order)
    /\ UNCHANGED <<capabilities, task_description, scores, recommended, tasks, assignments,
                   workloads, raised, spec_dir, threads, task,
                   swarm, objects, returned, directory, argv>>

Return ==
    /\ op # "idle"
    /\ op' = "idle"
    /\ task_description' = ""
    /\ scores' = EmptyDict
    /\ recommended' = ""
    /\ tasks' = <<>>
    /\ assignments' = EmptyDict
    /\ workloads' = EmptyDict
    /\ raised' = "none"
    /\ spec_dir' = NoDir
    /\ analysis' = SpecAnalysis("", "")
    /\ before' = SpecAnalysis("", "")
    /\ returned' = "None"
    /\ argv' = <<>>
    /\ UNCHANGED <<capabilities, threads, task, swarm, objects, directory>>

\* calls on an AgentRouter with the shipped registry
Next ==
    \/ CallRecommendAgent
    \/ CallRecommendAgentsForTasks
    \/ CallBalanceWorkload
    \/ Return

Spec == Init /\ [][Next]_vars

\* get_agent_workload on routers of every registry
NextRegistry ==
    \/ CallGetAgentWorkload
    \/ Return

SpecRegistry == InitRegistry /\ [][NextRegistry]_vars

\* calls on a SpecAnalyzer
NextAnalyzer ==
    \/ CallAnalyzeSpec
    \/ CallAnalyzeSpecAgain
    \/ Return

SpecAnalyzer == Init /\ [][NextAnalyzer]_vars

\* calls of the SpecAnalyzer's private steps, each on an analysis of its own
NextClassifier ==
    \/ CallAnalyzeContent
    \/ CallAnalyzeContentAgain
    \/ CallEnhanceFromPlan
    \/ CallCalculateComplexity
    \/ Return

SpecClassifier == Init /\ [][NextClassifier]_vars

\* analyze_spec calls of MaxThreads threads on one SpecAnalyzer, interleaved
\* at the calls of its private steps
NextConcurrent ==
    \/ ThreadCallAnalyzeSpec
    \/ ThreadAnalyzeContent
    \/ ThreadAnalyzeTasks
    \/ ThreadEnhanceFromPlan
    \/ ThreadCalculateComplexity
    \/ ThreadReturn

SpecConcurrent == Init /\ [][NextConcurrent]_vars

\* calls of mark_in_progress and mark_completed on one Task
NextTask ==
    \/ CallMarkInProgress
    \/ CallMarkCompleted
    \/ Return

SpecTask == InitTask /\ [][NextTask]_vars

\* tasks.md files of a spec directory: two tagged tasks; no task; a tagged
\* line without a task id after a good one; a ticked task and a line that is
\* no checklist line; a tag without a name
DeployDocuments ==
    { "## Tasks\n- [ ] T001 @codex Build\n- [ ] T002 @copilot Ship\n",
      "## Tasks\n",
      "- [ ] T001 @codex Build\n- [ ] @codex ship\n",
      "- [x] T001 @codex Done\n- [docs] Team bob@example.com\n",
      "- [ ] T001 ask @\n" }

\* values of --agents, "None" where the option is not given
AgentsArguments == {"None", "@codex,@copilot", " @codex , @qwen"}

\* the spec directory is created
MakeSpecDirectory ==
    /\ op = "idle"
    /\ ~directory.exists
    /\ directory' = [directory EXCEPT !.exists = TRUE]
    /\ UNCHANGED <<op, capabilities, task_description, scores, recommended, tasks,
                   assignments, workloads, raised, spec_dir, analysis, before, threads,
                   task, swarm, objects, returned, argv>>

\* tasks.md is written, or written again, between two runs
WriteTasksFile ==
    /\ op = "idle"
    /\ directory.exists
    /\ \E text \in DeployDocuments :
           /\ directory.tasks_md # File(text)
           /\ directory' = [directory EXCEPT !.tasks_md = File(text)]
    /\ UNCHANGED <<op, capabilities, task_description, scores, recommended, tasks,
                   assignments, workloads, raised, spec_dir, analysis, before, threads,
                   task, swarm, objects, returned, argv>>

\* one run of the swarm-deploy command on the directory
CallSwarmDeploy ==
    /\ op = "idle"
    /\ Len(directory.swarm_log) < MaxLogs
    /\ \E args_agents \in AgentsArguments :
         \E r \in {main(directory, args_agents)} :
           /\ op' = "swarm_deploy"
           /\ argv' = <<"--spec-path", directory.name, "--agents", args_agents>>
           /\ directory' = r.directory
           /\ raised' = IF r.exit_code = 0 THEN "none" ELSE "SystemExit"
    /\ UNCHANGED <<capabilities, task_description, scores, recommended, tasks,
                   assignments, workloads, spec_dir, analysis, before, threads,
                   task, swarm, objects, returned>>

\* spec ids: three the Spec model accepts, and three it rejects
SpecIds == {"001-user-auth", "002-api", "123-a-b\n", "auth", "user_auth", "001"}

\* the days create_for_spec is called on
Days == {"20240101", "20261103"}

\* AgentSwarm.create_for_spec(spec_id, agents)
CallCreateForSpec ==
    /\ op = "idle"
    /\ \E spec_id \in SpecIds : \E agents \in AgentLists : \E today \in Days :
         \E r \in {create_for_spec(spec_id, agents, today)} :
           /\ op' = "create_for_spec"
           /\ argv' = <<spec_id, agents, today>>
           /\ returned' = r.swarm
           /\ raised' = r.raised
    /\ UNCHANGED <<capabilities, task_description, scores, recommended, tasks,
                   assignments, workloads, spec_dir, analysis, before, threads,
                   task, swarm, objects, directory>>

\* add_task, start_task and complete_task on one AgentSwarm
NextSwarm ==
    \/ CallAddTask
    \/ CallStartTask
    \/ CallCompleteTask
    \/ Return

SpecSwarm == Init /\ [][NextSwarm]_vars

\* a Task taken through its statuses and, in each, written as a string and
\* parsed back
NextTaskString ==
    \/ CallMarkInProgress
    \/ CallMarkCompleted
    \/ CallToTaskString
    \/ CallFromTaskString
    \/ Return

SpecTaskString == InitTask /\ [][NextTaskString]_vars

\* calls of create_for_spec
NextCreate ==
    \/ CallCreateForSpec
    \/ Return

SpecCreate == Init /\ [][NextCreate]_vars

\* runs of swarm-deploy on one spec directory, tasks.md edited in between
NextDeploy ==
    \/ MakeSpecDirectory
    \/ WriteTasksFile
    \/ CallSwarmDeploy
    \/ Return

SpecDeploy == Init /\ [][NextDeploy]_vars

(***************************************************************************)
(* Properties.  Each one reads the frame of the call in progress: the      *)
(* arguments and the result the operation left there.                      *)
(***************************************************************************)
\* the elements of a list
Elems(seq) == {seq[i] : i \in 1..Len(seq)}

\* the place of a handle in the registry's iteration order
Position(handle) == CHOOSE i \in 1..Len(AgentOrder) : AgentOrder[i] = handle

\* how often a description occurs in a list
Occurrences(d, seq) == Cardinality({i \in 1..Len(seq) : seq[i] = d})

\* how often a description occurs in all lists of an assignment mapping
Assigned(d, asg) ==
    Cardinality({p \in UNION {{<<a, i>> : i \in 1..Len(asg[a])} : a \in DOMAIN asg} :
                    asg[p[1]][p[2]] = d})

\* the call in progress is balance_workload on ten tasks that all score
\* highest for the handle agent, whose parallel_capacity is 1
TenForOne(agent) ==
    /\ op = "balance_workload"
    /\ Len(tasks) = 10
    /\ capabilities[agent].parallel_capacity = 1
    /\ \A d \in Elems(tasks) : recommend_agent(d, capabilities) = agent

\* C1: balance_workload given 10 tasks that all score highest for one agent
\* of parallel_capacity 1 leaves exactly the first task with that agent.
C1_OneTaskRemains ==
    \A agent \in Handles :
        TenForOne(agent) =>
            /\ agent \in DOMAIN assignments
            /\ assignments[agent] = <<tasks[1]>>

\* balance_workload returned all ten tasks with the agent of capacity 1
C1_AllTenRemain ==
    \E agent \in Handles :
        /\ TenForOne(agent)
        /\ DOMAIN assignments = {agent}
        /\ assignments[agent] = tasks

OptimizeQueries == "Optimize database queries and improve algorithm efficiency"

\* C2: for "Optimize database queries and improve algorithm efficiency" the
\* score of @qwen is strictly higher than the score of every other registered
\* agent, and recommend_agent returns @qwen.
C2_QwenScoresHighest ==
    (op = "recommend_agent" /\ task_description = OptimizeQueries) =>
        /\ \A agent \in Handles \ {"@qwen"} : scores["@qwen"] > scores[agent]
        /\ recommended = "@qwen"

\* recommend_agent returned @copilot for that description, @qwen scoring less
C2_CopilotReturned ==
    /\ op = "recommend_agent"
    /\ task_description = OptimizeQueries
    /\ recommended = "@copilot"
    /\ scores["@copilot"] > scores["@qwen"]

\* C3: whichever of spec.md, tasks.md and plan.md are present, the analysis
\* analyze_spec returns has a non-empty deployment_targets.
C3_TargetsNonEmpty ==
    op = "analyze_spec" => analysis.deployment_targets # <<>>

\* analyze_spec returned no deployment target for a directory without spec.md
C3_NoSpecNoTargets ==
    /\ op = "analyze_spec"
    /\ ~spec_dir.spec_md.exists
    /\ analysis.deployment_targets = <<>>

\* the handles the keyword checks of plan.md call for
PlanHandles(plan_md) ==
    IF ~plan_md.exists THEN {}
    ELSE LET plan == Lower(plan_md.text)
         IN  {h \in {"@qwen"} : AnyIn(<<"performance", "fast", "speed", "optimiz">>, plan)}
             \cup {h \in {"@claude"} : AnyIn(<<"security", "auth", "encrypt", "secure">>, plan)}
             \cup {h \in {"@codex"} : AnyIn(<<"ui", "frontend", "react", "component", "interactive">>, plan)}

\* C4 (as the code has it): when tasks.md is missing, analyze_spec returns
\* tasks_count = 0, and agents_recommended holds, each once, exactly the handles
\* the keyword checks of plan.md call for: none when plan.md is missing or
\* triggers no check.
C4_MissingTasksPlanOnly ==
    (op = "analyze_spec" /\ ~spec_dir.tasks_md.exists) =>
        /\ analysis.tasks_count = 0
        /\ Elems(analysis.agents_recommended) = PlanHandles(spec_dir.plan_md)
        /\ Len(analysis.agents_recommended) = Cardinality(PlanHandles(spec_dir.plan_md))

\* tasks.md is missing and plan.md alone put handles in agents_recommended
C4_PlanRecommends ==
    /\ op = "analyze_spec"
    /\ ~spec_dir.tasks_md.exists
    /\ spec_dir.plan_md.exists
    /\ analysis.tasks_count = 0
    /\ Len(analysis.agents_recommended) >= 2

\* C4 (as stated): when tasks.md is missing, analyze_spec returns tasks_count
\* = 0 and an empty agents_recommended, whatever the other files contain.
C4_MissingTasksNoAgents ==
    (op = "analyze_spec" /\ ~spec_dir.tasks_md.exists) =>
        /\ analysis.tasks_count = 0
        /\ analysis.agents_recommended = <<>>

\* C5: recommend_agent returns a registered handle whose score is the maximum
\* over all profiles, the first such handle in registry order, and the handle
\* is a function of the description and the registry.
C5_FirstMaximum ==
    op = "recommend_agent" =>
        /\ recommended \in Handles
        /\ \A agent \in Handles : scores[agent] <= scores[recommended]
        /\ \A agent \in Handles :
            Position(agent) < Position(recommended) => scores[agent] < scores[recommended]
        /\ recommended = recommend_agent(task_description, capabilities)

\* two handles share a positive maximum and the earlier one was returned
C5_TieBroken ==
    /\ op = "recommend_agent"
    /\ scores[recommended] > 0
    /\ \E agent \in Handles :
        /\ Position(agent) > Position(recommended)
        /\ scores[agent] = scores[recommended]

\* C6: for every description and every registered profile the match score is
\* non-negative, and it is 0 where no rule applies.
C6_ScoreNonNegative ==
    op = "recommend_agent" =>
        /\ \A agent \in Handles : scores[agent] >= 0
        /\ task_description = "" => \A agent \in Handles : scores[agent] = 0

\* a description that some profiles match and others do not
C6_SomeScored ==
    /\ op = "recommend_agent"
    /\ \E agent \in Handles : scores[agent] > 10
    /\ \E agent \in Handles : scores[agent] = 0

\* C7: get_agent_workload returns for each handle of the mapping
\* min(100, count / parallel_capacity * 100): never more than 100, and 100 for
\* a handle of capacity 0.
C7_WorkloadClamped ==
    op = "get_agent_workload" =>
        /\ DOMAIN workloads = DOMAIN assignments
        /\ \A agent \in DOMAIN assignments :
            LET count == Len(assignments[agent])
                capacity == capabilities[agent].parallel_capacity
                value == workloads[agent]
            IN  /\ value.den > 0
                /\ value.num <= 100 * value.den
                /\ (capacity = 0) => (value = Hundred)
                /\ (capacity > 0 /\ count > capacity) => (value = Hundred)
                /\ (capacity > 0 /\ count <= capacity) =>
                        (value.num * capacity = count * 100 * value.den)

\* one mapping with a handle of capacity 0, a handle over its capacity and a
\* handle at half its capacity
C7_ZeroOverAndHalf ==
    /\ op = "get_agent_workload"
    /\ \E agent \in DOMAIN assignments :
        /\ capabilities[agent].parallel_capacity = 0
        /\ assignments[agent] = <<>>
    /\ \E agent \in DOMAIN assignments :
        /\ capabilities[agent].parallel_capacity > 0
        /\ Len(assignments[agent]) > capabilities[agent].parallel_capacity
    /\ \E agent \in DOMAIN assignments : workloads[agent] = Rat(50, 1)

\* C8: recommend_agents_for_tasks assigns each task to recommend_agent(task):
\* the lists of the result partition the input in input order, no handle has
\* an empty list, and an empty task list yields an empty mapping.
C8_Partition ==
    op = "recommend_agents_for_tasks" =>
        LET best == {<<i, recommend_agent(tasks[i], capabilities)>> : i \in 1..Len(tasks)}
            Indices(agent) == {i \in 1..Len(tasks) : <<i, agent>> \in best}
            Nth(agent, k) ==
                CHOOSE i \in Indices(agent) :
                    Cardinality({j \in Indices(agent) : j <= i}) = k
        IN  /\ DOMAIN assignments = {p[2] : p \in best}
            /\ \A agent \in DOMAIN assignments :
                /\ assignments[agent] # <<>>
                /\ Len(assignments[agent]) = Cardinality(Indices(agent))
                /\ \A k \in 1..Len(assignments[agent]) :
                        assignments[agent][k] = tasks[Nth(agent, k)]
            /\ (tasks = <<>>) => (assignments = EmptyDict)

\* two different tasks went to one handle, in input order, beside another
\* handle's task
C8_TwoForOne ==
    /\ op = "recommend_agents_for_tasks"
    /\ Len(tasks) = MaxTasks
    /\ \E agent \in DOMAIN assignments :
        /\ Len(assignments[agent]) >= 1
        /\ assignments[agent][1] = tasks[1]
        /\ DOMAIN assignments # {agent}

\* C9: balance_workload returns without raising, no task of the result is
\* absent from the input, and no task occurs in the result more often than in
\* the input.
C9_NoRaiseNoDuplicate ==
    op = "balance_workload" =>
        /\ raised = "none"
        /\ \A agent \in DOMAIN assignments : Elems(assignments[agent]) \subseteq Elems(tasks)
        /\ \A d \in Elems(tasks) : Assigned(d, assignments) <= Occurrences(d, tasks)

\* balance_workload returned several tasks spread over two handles
C9_TwoHandles ==
    /\ op = "balance_workload"
    /\ raised = "none"
    /\ Cardinality(DOMAIN assignments) = 2
    /\ \A d \in Elems(tasks) : Assigned(d, assignments) = Occurrences(d, tasks)

\* what the analysed spec.md mentions
Mentions(kws) == AnyIn(kws, Lower(spec_dir.spec_md.text))

DockerWords == <<"docker", "container">>
KubernetesWords == <<"kubernetes", "k8s", "cluster", "scale">>
ServerlessWords == <<"serverless", "lambda", "vercel", "netlify">>
VpsWords == <<"vps", "digitalocean", "linode", "simple">>

\* spec.md was analysed
SpecAnalysed == op = "analyze_spec" /\ spec_dir.spec_md.exists

\* a backend was detected in spec.md
BackendDetected == "backend" \in DOMAIN analysis.stack_detected

\* the targets in the order the analyzer appends them, without repetition
TargetsInOrder ==
    \E picked \in SUBSET {"docker", "kubernetes", "serverless", "vps"} :
        analysis.deployment_targets =
            SelectSeq(<<"docker", "kubernetes", "serverless", "vps">>, LAMBDA t : t \in picked)

\* C10 (as the code has it): kubernetes, serverless and vps are targets
\* exactly when one of their keywords occurs in the text; docker is a target
\* exactly when docker or container occurs, or a backend was detected in the
\* stack, or none of the keywords of the other three targets occurs.
C10_TargetsByKeywordOrBackend ==
    SpecAnalysed =>
        LET targets == Elems(analysis.deployment_targets)
        IN  /\ TargetsInOrder
            /\ "kubernetes" \in targets <=> Mentions(KubernetesWords)
            /\ "serverless" \in targets <=> Mentions(ServerlessWords)
            /\ "vps" \in targets <=> Mentions(VpsWords)
            /\ "docker" \in targets <=>
                    \/ Mentions(DockerWords)
                    \/ BackendDetected
                    \/ ~(Mentions(KubernetesWords) \/ Mentions(ServerlessWords)
                         \/ Mentions(VpsWords))

\* a text that names neither docker nor container, has a backend and a
\* kubernetes keyword, and got docker beside kubernetes
C10_DockerForBackend ==
    /\ SpecAnalysed
    /\ ~Mentions(DockerWords)
    /\ BackendDetected
    /\ Mentions(KubernetesWords)
    /\ analysis.deployment_targets = <<"docker", "kubernetes">>

\* C10 (as stated): the targets depend on keyword presence alone: docker
\* exactly when docker or container occurs, kubernetes, serverless and vps
\* exactly when one of their keywords occurs; exactly <<"docker">> when no
\* keyword occurs.
C10_TargetsByKeywordAlone ==
    SpecAnalysed =>
        LET targets == Elems(analysis.deployment_targets)
            any == Mentions(DockerWords) \/ Mentions(KubernetesWords)
                   \/ Mentions(ServerlessWords) \/ Mentions(VpsWords)
        IN  /\ any => ("docker" \in targets <=> Mentions(DockerWords))
            /\ "kubernetes" \in targets <=> Mentions(KubernetesWords)
            /\ "serverless" \in targets <=> Mentions(ServerlessWords)
            /\ "vps" \in targets <=> Mentions(VpsWords)
            /\ ~any => analysis.deployment_targets = <<"docker">>

\* ---------------------------------------------------------------------------
\* the description taken from spec.md
\* ---------------------------------------------------------------------------

\* the lines of the analysed spec.md
SpecLines == SplitLines(spec_dir.spec_md.text)

\* the position of the title line of spec.md, 0 when it has none
TitleLine ==
    IF \E i \in DOMAIN SpecLines : StartsWith(SpecLines[i], "# ")
    THEN CHOOSE i \in DOMAIN SpecLines :
            /\ StartsWith(SpecLines[i], "# ")
            /\ \A j \in 1..(i - 1) : ~StartsWith(SpecLines[j], "# ")
    ELSE 0

\* a line that cannot belong to a paragraph: blank, or a heading
BlankOrHeading(line) == Strip(line) = "" \/ StartsWith(line, "#")

\* the first run of paragraph lines at or after line i
RECURSIVE FirstRun(_, _, _)
FirstRun(lines, i, started) ==
    IF i > Len(lines) THEN <<>>
    ELSE IF BlankOrHeading(lines[i])
    THEN IF started THEN <<>> ELSE FirstRun(lines, i + 1, FALSE)
    ELSE <<Strip(lines[i])>> \o FirstRun(lines, i + 1, TRUE)

\* C11: the description of an analysed spec.md that has a title is the first
\* contiguous run of non-empty, non-heading lines after the title line, joined
\* by single spaces; the run ends at the first blank line or heading line
C11_DescriptionIsFirstRun ==
    (SpecAnalysed /\ TitleLine > 0) =>
        analysis.description = JoinSpace(FirstRun(SpecLines, TitleLine + 1, FALSE))

\* C11: a description that runs across a heading line
C11_DescriptionAcrossHeading ==
    /\ SpecAnalysed
    /\ TitleLine > 0
    /\ analysis.description = "A plain page. Still the first paragraph."
    /\ \E i \in DOMAIN SpecLines : i > TitleLine /\ SpecLines[i] = "## Scope"

\* ---------------------------------------------------------------------------
\* two invocations on one directory
\* ---------------------------------------------------------------------------

\* a second invocation on the directory has returned; before is what the
\* first one returned
AnalysedAgain == op = "analyze_spec_again"

\* C12: two invocations of analyze_spec on identical spec.md, tasks.md and
\* plan.md return equal SpecAnalysis values, the element order of
\* agents_recommended included
C12_SameAnalysisTwice == AnalysedAgain => analysis = before

\* C12: two invocations that recommend the same handles in different orders
C12_OrderDiffers ==
    /\ AnalysedAgain
    /\ Elems(analysis.agents_recommended) = Elems(before.agents_recommended)
    /\ analysis.agents_recommended # before.agents_recommended
    /\ [analysis EXCEPT !.agents_recommended = <<>>] = [before EXCEPT !.agents_recommended = <<>>]

\* ---------------------------------------------------------------------------
\* tasks.md without plan.md
\* ---------------------------------------------------------------------------

\* analyze_spec has returned for a directory with tasks.md and no plan.md
TasksOnly == op = "analyze_spec" /\ spec_dir.tasks_md.exists /\ ~spec_dir.plan_md.exists

\* the lines of tasks.md that match the checklist pattern
CountedLines == TaskLines(spec_dir.tasks_md.text)

\* every @handle on a line
HandlesOn(line) ==
    {Slice(line, i, RunEnd(line, i + 1, WordSet, TRUE) - 1) :
        i \in {j \in 1..Len(line) : CharAt(line, j) = "@" /\ IsWordAt(line, j + 1)}}

\* every handle mentioned on a counted line
AllHandles == UNION {HandlesOn(CountedLines[i]) : i \in 1..Len(CountedLines)}

\* the first handle of each counted line that carries one
FirstHandles ==
    {Mention(CountedLines[i]) : i \in {n \in 1..Len(CountedLines) : HandlesOn(CountedLines[n]) # {}}}

\* the handles the Router assigns to the descriptions of the counted lines
RouterHandles ==
    DOMAIN recommend_agents_for_tasks(
        [i \in 1..Len(CountedLines) |-> extract_task_description(CountedLines[i])],
        AGENT_CAPABILITIES)

\* C13 as stated: with tasks.md and no plan.md, tasks_count is the number of
\* checklist lines, and agents_recommended is the set of all handles mentioned
\* on counted lines when there is one, else the handles the Router assigns
C13_CountAndAllHandles ==
    TasksOnly =>
        /\ analysis.tasks_count = Len(CountedLines)
        /\ Elems(analysis.agents_recommended) =
                IF AllHandles # {} THEN AllHandles ELSE RouterHandles

\* C13: with tasks.md and no plan.md, tasks_count is the number of checklist
\* lines, and agents_recommended is the set of the first handles of the
\* counted lines when one carries a handle, else the handles the Router
\* assigns to the descriptions of the counted lines
C13_CountAndFirstHandles ==
    TasksOnly =>
        /\ analysis.tasks_count = Len(CountedLines)
        /\ Elems(analysis.agents_recommended) =
                IF FirstHandles # {} THEN FirstHandles ELSE RouterHandles

\* C13: a counted line with two handles, of which the first is recommended,
\* beside a counted line with none
C13_SecondHandleLeftOut ==
    /\ TasksOnly
    /\ analysis.tasks_count = 2
    /\ \E i \in 1..Len(CountedLines) : HandlesOn(CountedLines[i]) = {"@copilot", "@claude"}
    /\ \E i \in 1..Len(CountedLines) : HandlesOn(CountedLines[i]) = {}
    /\ analysis.agents_recommended = <<"@copilot">>

\* ---------------------------------------------------------------------------
\* complexity
\* ---------------------------------------------------------------------------

\* _calculate_complexity has returned analysis for the analysis before
ComplexityCalculated == op = "calculate_complexity"

\* a requirement flag that is present and set
Present(requirements, flag) == flag \in DOMAIN requirements /\ requirements[flag] = TRUE

\* how many of the flags are present
PresentAmong(requirements, flags) ==
    Cardinality({flag \in flags : Present(requirements, flag)})

\* the score in halves: 2 per component, 1, 3 or 5 for the tasks, 1.5 per
\* technology, 2 per flag of security and performance, 1 per flag of
\* accessibility and i18n
ScoreInHalves(a) ==
    4 * Len(a.components_needed)
    + (IF a.tasks_count < 20 THEN 2 ELSE IF a.tasks_count < 50 THEN 6 ELSE 10)
    + 3 * Cardinality(DOMAIN a.stack_detected)
    + 4 * PresentAmong(a.requirements, {"security", "performance"})
    + 2 * PresentAmong(a.requirements, {"accessibility", "i18n"})

\* C14: a score below 5 gives low with "3-5 days", a score from 5 and below
\* 15 gives medium with "1-2 weeks", a score from 15 gives high with
\* "3-4 weeks"; no other field changes
C14_ThresholdMapping ==
    ComplexityCalculated =>
        LET halves == ScoreInHalves(before)
            bucket == IF halves < 10 THEN <<"low", "3-5 days">>
                      ELSE IF halves < 30 THEN <<"medium", "1-2 weeks">>
                      ELSE <<"high", "3-4 weeks">>
        IN  analysis = [before EXCEPT !.complexity = bucket[1], !.estimated_effort = bucket[2]]

\* C14: a score of exactly 5, from two components and fewer than 20 tasks, is
\* medium
C14_ExactlyFiveIsMedium ==
    /\ ComplexityCalculated
    /\ ScoreInHalves(before) = 10
    /\ Len(before.components_needed) = 2
    /\ analysis.complexity = "medium"
    /\ analysis.estimated_effort = "1-2 weeks"

\* ---------------------------------------------------------------------------
\* stack and components of spec.md
\* ---------------------------------------------------------------------------

\* the places in a category's declared order of the technologies that have a
\* pattern matching the analysed spec.md
MatchingTechs(category) ==
    LET content_lower == Lower(spec_dir.spec_md.text)
        bounds == Boundaries(content_lower)
    IN  {i \in 1..Len(STACK_PATTERNS[category]) :
            AnyPattern(STACK_PATTERNS[category][i].patterns, content_lower, bounds)}

\* C15: for each category, stack_detected holds the first technology in
\* declared order that has a pattern matching the text, and the category is
\* absent when no technology matches
C15_FirstDeclaredTech ==
    SpecAnalysed =>
        /\ DOMAIN analysis.stack_detected \subseteq DOMAIN STACK_PATTERNS
        /\ \A category \in DOMAIN STACK_PATTERNS :
            LET matching == MatchingTechs(category)
            IN  IF matching = {} THEN category \notin DOMAIN analysis.stack_detected
                ELSE /\ category \in DOMAIN analysis.stack_detected
                     /\ analysis.stack_detected[category] =
                            STACK_PATTERNS[category][CHOOSE i \in matching :
                                                        \A j \in matching : i <= j].tech

\* C15: a text that names rails before django: both technologies match, and
\* python, declared first, is the backend
C15_DeclaredBeforeNamed ==
    /\ SpecAnalysed
    /\ Contains("Rails app moving to Django", spec_dir.spec_md.text)
    /\ Cardinality(MatchingTechs("backend")) = 2
    /\ analysis.stack_detected = [category \in {"backend"} |-> "python"]

\* C16: components_needed lists, each once and in the declaration order of
\* the pattern table, exactly the components that have a pattern matching
\* the text
C16_ComponentsInDeclaredOrder ==
    SpecAnalysed =>
        LET content_lower == Lower(spec_dir.spec_md.text)
            bounds == Boundaries(content_lower)
            matching == {component \in DOMAIN COMPONENT_PATTERNS :
                            AnyPattern(COMPONENT_PATTERNS[component], content_lower, bounds)}
        IN  analysis.components_needed = SelectSeq(ComponentOrder, LAMBDA c : c \in matching)

\* C16: a text that names payments before login: auth, declared first, is
\* listed before payments
C16_DeclaredBeforeNamed ==
    /\ SpecAnalysed
    /\ Contains("payments first, then login", spec_dir.spec_md.text)
    /\ analysis.components_needed = <<"multiagent-auth", "multiagent-payments">>

\* ---------------------------------------------------------------------------
\* classification once and again
\* ---------------------------------------------------------------------------

\* _analyze_content has been applied again to the same text; before is what
\* the application before it returned
ClassifiedAgain == op = "analyze_content_again"

\* C17: applying _analyze_content again to the same text, to the same
\* SpecAnalysis object or to a fresh one, yields the components_needed and
\* the stack_detected of the application before
C17_ClassificationStable ==
    ClassifiedAgain =>
        /\ analysis.components_needed = before.components_needed
        /\ analysis.stack_detected = before.stack_detected

\* C17: a second application that leaves two components and a backend that
\* is not the first declared one as they were
C17_ShopClassifiedTwice ==
    /\ ClassifiedAgain
    /\ Len(analysis.components_needed) >= 2
    /\ "backend" \in DOMAIN analysis.stack_detected
    /\ analysis.stack_detected["backend"] # STACK_PATTERNS["backend"][1].tech
    /\ analysis.components_needed = before.components_needed
    /\ analysis.stack_detected = before.stack_detected

\* ---------------------------------------------------------------------------
\* plan.md enhancement
\* ---------------------------------------------------------------------------

\* _enhance_from_plan has returned analysis for the analysis before
PlanEnhanced == op = "enhance_from_plan"

\* C18: _enhance_from_plan keeps the handles of agents_recommended in place
\* and appends, in the order @qwen, @claude, @codex, each handle whose keyword
\* class occurs in plan.md and that is not yet in the list, so that each
\* triggered handle is in the list exactly once; no other field changes
C18_EnhancementAdditive ==
    PlanEnhanced =>
        LET prior == before.agents_recommended
            now == analysis.agents_recommended
            triggered == PlanHandles(spec_dir.plan_md)
        IN  /\ Len(now) >= Len(prior)
            /\ SubSeq(now, 1, Len(prior)) = prior
            /\ SubSeq(now, Len(prior) + 1, Len(now)) =
                    SelectSeq(<<"@qwen", "@claude", "@codex">>,
                              LAMBDA h : h \in triggered /\ h \notin Elems(prior))
            /\ \A h \in triggered : Occurrences(h, now) = 1
            /\ [analysis EXCEPT !.agents_recommended = prior] = before

\* C18: a plan that triggers all three handles, met by a list that holds
\* @claude already
C18_ClaudeKeptInPlace ==
    /\ PlanEnhanced
    /\ before.agents_recommended = <<"@claude", "@copilot">>
    /\ PlanHandles(spec_dir.plan_md) = {"@qwen", "@claude", "@codex"}
    /\ analysis.agents_recommended = <<"@claude", "@copilot", "@qwen", "@codex">>

\* ---------------------------------------------------------------------------
\* concurrent analyses
\* ---------------------------------------------------------------------------

\* C19: every analyze_spec call that runs concurrently with calls on other
\* directories returns the SpecAnalysis it returns when run alone, and the
\* capability registry stays as shipped
C19_AsWhenRunAlone ==
    /\ capabilities = AGENT_CAPABILITIES
    /\ \A t \in DOMAIN threads :
        threads[t].pc = "return" =>
            threads[t].analysis = analyze_spec(threads[t].spec_dir, threads[t].set_order)

\* C19: a call returns an analysis with recommendations while a call on
\* another directory is between its steps
C19_ReturnsBesideRunningCall ==
    /\ threads[1].pc = "return"
    /\ threads[2].pc = "plan_md"
    /\ threads[1].spec_dir # threads[2].spec_dir
    /\ threads[1].analysis.agents_recommended # <<>>
    /\ threads[2].analysis.title # ""
    /\ threads[1].analysis = analyze_spec(threads[1].spec_dir, threads[1].set_order)

\* ---------------------------------------------------------------------------
\* the status of a Task
\* ---------------------------------------------------------------------------

\* a call of method that succeeds only from status from, moving it to status to
CallMoves(method, from, to) ==
    op' = method =>
        /\ raised' = "none" <=> task.status = from
        /\ raised' = "none" => task' = [task EXCEPT !.status = to]
        /\ raised' # "none" => raised' = "ValueError" /\ task' = task

\* the status stays, or moves one step forward
StatusForward ==
    \/ task'.status = task.status
    \/ task.status = "pending" /\ task'.status = "in_progress"
    \/ task.status = "in_progress" /\ task'.status = "completed"

\* C20: mark_in_progress succeeds only from pending and mark_completed only
\* from in_progress, every other call raises ValueError and leaves the Task as
\* it was, and so every step keeps the status or moves it one step along
\* pending, in_progress, completed
C20_StatusForwardOnly ==
    [][/\ CallMoves("mark_in_progress", "pending", "in_progress")
       /\ CallMoves("mark_completed", "in_progress", "completed")
       /\ StatusForward]_vars

\* C20: mark_completed has succeeded
C20_Completed ==
    /\ op = "mark_completed"
    /\ raised = "none"
    /\ task.status = "completed"

\* ---------------------------------------------------------------------------
\* tasks of a swarm
\* ---------------------------------------------------------------------------

\* the Task object at place i of the swarm's task list
SwarmTask(i) == objects[swarm.tasks[i]]

\* the places of the swarm's task list
SwarmTasks == 1..Len(swarm.tasks)

\* the task at place i names the task at place j in its dependencies
DependsOn(i, j) == InList(SwarmTask(j).id, SwarmTask(i).dependencies)

\* C21: in a swarm no task is in_progress or completed while a task named in
\* its dependencies is not completed
C21_DependenciesCompletedFirst ==
    \A i \in SwarmTasks : \A j \in SwarmTasks :
        (DependsOn(i, j) /\ SwarmTask(i).status \in {"in_progress", "completed"})
            => SwarmTask(j).status = "completed"

\* C21: start_task has started T002 while T001, which it depends on, is pending
C21_StartedBeforeDependency ==
    /\ op = "start_task"
    /\ raised = "none"
    /\ \E i \in SwarmTasks : \E j \in SwarmTasks :
        /\ DependsOn(i, j)
        /\ SwarmTask(i).id = "T002" /\ SwarmTask(i).status = "in_progress"
        /\ SwarmTask(j).id = "T001" /\ SwarmTask(j).status = "pending"

\* C22: the ids of the tasks of a swarm are pairwise distinct
C22_TaskIdsDistinct ==
    \A i \in SwarmTasks : \A j \in SwarmTasks : SwarmTask(i).id = SwarmTask(j).id => i = j

\* C22: two Task objects with the id T001 in one swarm: the first one is
\* completed, the second one is pending and no call addresses it
C22_SecondTaskOutOfReach ==
    /\ \E i \in SwarmTasks : \E j \in SwarmTasks :
        /\ i < j
        /\ swarm.tasks[i] # swarm.tasks[j]
        /\ SwarmTask(i).id = "T001" /\ SwarmTask(i).status = "completed"
        /\ SwarmTask(j).id = "T001" /\ SwarmTask(j).status = "pending"
    /\ \A task_id \in TaskIds : get_task_by_id(swarm, objects, task_id) # 0 =>
            SwarmTask(get_task_by_id(swarm, objects, task_id)).status # "pending"

\* ---------------------------------------------------------------------------
\* runs of swarm-deploy
\* ---------------------------------------------------------------------------

\* a run of swarm-deploy that got as far as logging "start" has ended
DeployRan ==
    /\ op = "swarm_deploy"
    /\ directory.exists
    /\ directory.tasks_md.exists

\* the stripped lines of tasks.md that start with "- [" and hold an "@"
TaggedLines ==
    LET lines == Splitlines(directory.tasks_md.text)
    IN  {i \in 1..Len(lines) :
            StartsWith(Strip(lines[i]), "- [") /\ Contains("@", Strip(lines[i]))}

\* every tagged line has a word after its first "T" and after its first "@"
TaggedLinesWellFormed ==
    LET lines == Splitlines(directory.tasks_md.text)
    IN  \A i \in TaggedLines :
            /\ TokenAfter(Strip(lines[i]), "T") # <<>>
            /\ TokenAfter(Strip(lines[i]), "@") # <<>>

\* the agents the value of --agents names
AgentsGiven ==
    CASE argv[4] = "None" -> <<"@copilot">>
      [] argv[4] = "@codex,@copilot" -> <<"@codex", "@copilot">>
      [] argv[4] = " @codex , @qwen" -> <<"@codex", "@qwen">>

\* the event at place i of swarm_log.jsonl, "" where the log is shorter
EventAt(i) ==
    IF i \in 1..Len(directory.swarm_log) THEN directory.swarm_log[i].event ELSE ""

LastEvent == EventAt(Len(directory.swarm_log))

\* exit code 0, both files written, and "completed" logged after "start"
Deployed ==
    /\ raised = "none"
    /\ directory.swarm_status.exists
    /\ directory.swarm_status.status = "deployed"
    /\ directory.swarm_status.swarm_id = "swarm-spec-swarm"
    /\ directory.swarm_status.agents = AgentsGiven
    /\ directory.swarm_status.tasks_assigned = Cardinality(TaggedLines)
    /\ directory.swarm_monitoring.exists
    /\ directory.swarm_monitoring.metrics.tasks_assigned = Cardinality(TaggedLines)
    /\ directory.swarm_monitoring.metrics.agent_count = Len(AgentsGiven)
    /\ LastEvent = "completed"
    /\ EventAt(Len(directory.swarm_log) - 1) = "start"

C24_FailedRunLeavesNoArtefacts ==
    (DeployRan /\ raised = "SystemExit") =>
        /\ ~directory.swarm_status.exists
        /\ ~directory.swarm_monitoring.exists
        /\ LastEvent = "rollback"

\* C24: a run has failed for want of a tagged task and logged "rollback",
\* and the two files of the run before it are still there
C24_StaleArtefactsAfterRollback ==
    /\ DeployRan
    /\ raised = "SystemExit"
    /\ directory.tasks_md.text = "## Tasks\n"
    /\ LastEvent = "rollback"
    /\ directory.swarm_status.exists
    /\ directory.swarm_status.tasks_assigned = 2
    /\ directory.swarm_monitoring.exists

\* ---------------------------------------------------------------------------
\* the status of a swarm
\* ---------------------------------------------------------------------------

\* C25: whenever is_completed() is true every task of the swarm is completed
C25_CompletedMeansAllCompleted ==
    is_completed(swarm) => \A i \in SwarmTasks : SwarmTask(i).status = "completed"

\* C25: add_task has put a pending task into a swarm that is completed
C25_PendingTaskInCompletedSwarm ==
    /\ op = "add_task"
    /\ raised = "none"
    /\ is_completed(swarm)
    /\ SwarmTask(Len(swarm.tasks)).status = "pending"

\* the place of a swarm status on the way deployed, running, completed
SwarmRank(status) ==
    CASE status = "deployed" -> 0
      [] status = "running" -> 1
      [] status = "completed" -> 2

\* C27: every step leaves the swarm status where it was or moves it forward
\* along deployed, running, completed, never from deployed to completed and
\* never to failed, and completed_at changes in the steps that make the
\* status completed and in no other, so it is None until then
C27_SwarmStatusForwardOnly ==
    [][/\ swarm'.status \in {"deployed", "running", "completed"}
       /\ SwarmRank(swarm'.status) >= SwarmRank(swarm.status)
       /\ ~(swarm.status = "deployed" /\ swarm'.status = "completed")
       /\ (swarm'.completed_at # swarm.completed_at)
            <=> (swarm.status # "completed" /\ swarm'.status = "completed")
       /\ (swarm'.completed_at = "None") <=> (swarm'.status # "completed")]_vars

\* C27: complete_task has completed the last open task of a running swarm
C27_SwarmCompleted ==
    /\ op = "complete_task"
    /\ raised = "none"
    /\ swarm.status = "completed"
    /\ swarm.completed_at = "now"

\* the first task of the swarm with the id is in the status, as it stands
\* before the call
AddressedIn(task_id, status) ==
    /\ get_task_by_id(swarm, objects, task_id) # 0
    /\ SwarmTask(get_task_by_id(swarm, objects, task_id)).status = status

\* the call entered in this step has what it needs to succeed
SwarmCallCanSucceed ==
    CASE op' = "add_task" -> InList(objects[argv'[1]].assigned_agent, swarm.agents)
      [] op' = "start_task" -> AddressedIn(argv'[1], "pending")
      [] op' = "complete_task" -> AddressedIn(argv'[1], "in_progress")

\* C28: add_task with an agent outside the swarm, and start_task or
\* complete_task with an unknown id or a task in the wrong status, raise
\* ValueError and leave the swarm and every Task as they were; every other
\* call succeeds and appends exactly one log entry
C28_FailedCallChangesNothing ==
    [][(op = "idle" /\ op' \in {"add_task", "start_task", "complete_task"}) =>
         /\ (raised' = "ValueError") <=> ~SwarmCallCanSucceed
         /\ (raised' = "none") <=> SwarmCallCanSucceed
         /\ raised' = "ValueError" => (swarm' = swarm /\ objects' = objects)
         /\ raised' = "none" =>
              /\ Len(swarm'.logs) = Len(swarm.logs) + 1
              /\ SubSeq(swarm'.logs, 1, Len(swarm.logs)) = swarm.logs]_vars

\* C28: complete_task on a task that is still pending has raised ValueError
C28_CompleteOfPendingRaised ==
    /\ op = "complete_task"
    /\ raised = "ValueError"
    /\ AddressedIn(argv[1], "pending")

\* ---------------------------------------------------------------------------
\* balance_workload beside recommend_agents_for_tasks
\* ---------------------------------------------------------------------------

\* the number of tasks a mapping holds
RECURSIVE TasksHeld(_, _)
TasksHeld(asg, agents) ==
    IF agents = {} THEN 0
    ELSE LET agent == CHOOSE a \in agents : TRUE
         IN  Len(asg[agent]) + TasksHeld(asg, agents \ {agent})

C29_CreatedForSpecId ==
    (op = "create_for_spec" /\ IsSpecId(argv[1]) /\ argv[2] # <<>>) =>
        /\ raised = "none"
        /\ returned.status = "deployed"
        /\ returned.agents = argv[2]
        /\ returned.tasks = <<>>
        /\ Len(returned.logs) = 1
        /\ returned.logs[1].agent = "system"

\* C29: create_for_spec('001-user-auth', ['@claude']) has raised
C29_SpecIdRejected ==
    /\ op = "create_for_spec"
    /\ argv[1] = "001-user-auth"
    /\ argv[2] = <<"@claude">>
    /\ raised = "ValidationError"

\* ---------------------------------------------------------------------------
\* a Task as a line of tasks.md
\* ---------------------------------------------------------------------------

\* C30: from_task_string(t.to_task_string()) succeeds for a Task t in any
\* status and yields a task with the id, assigned agent, description and
\* status of t
C30_TaskStringRoundTrip ==
    op = "from_task_string" =>
        /\ raised = "none"
        /\ returned.id = task.id
        /\ returned.assigned_agent = task.assigned_agent
        /\ returned.description = task.description
        /\ returned.status = task.status

\* C30: the string of a completed task, "- [x] T001 @copilot Write docs",
\* has been refused by from_task_string
C30_CompletedTaskRefused ==
    /\ op = "from_task_string"
    /\ task.status = "completed"
    /\ argv = <<"- [x] T001 @copilot Write docs">>
    /\ raised = "ValueError"

\* C30: a task in progress has come back from its string as a pending task
C30_InProgressReadAsPending ==
    /\ op = "from_task_string"
    /\ raised = "none"
    /\ task.status = "in_progress"
    /\ returned.status = "pending"
    /\ returned.description = "Write docs"
====
